---------------------------- MODULE Spec2Model ----------------------------
(***************************************************************************)
(* A model of tcpmt: the TLV frame codec (src/src/tlv.rs), the operation   *)
(* model (src/src/operation.rs), the answer model (src/src/answer.rs) and  *)
(* the per-connection server loop (src/src/bin/tcpmtser.rs).               *)
(*                                                                         *)
(* Bytes are the integers 0..255.  Signed 8- and 16-bit values are plain   *)
(* integers.  A signed 64-bit value is kept as four 16-bit limbs in two's  *)
(* complement, most significant limb first, because the values reach 2^63. *)
(* Rust's Result / Option / panic are the records built by Ok, Err, Some,  *)
(* None and Panic.                                                         *)
(***************************************************************************)
EXTENDS Integers, Sequences, FiniteSets, TLC

VARIABLES
    overflow_checks, \* build profile: TRUE = overflow checks on (debug), FALSE = wrapping (release)
    order,           \* tcpmtser: AnswerOrder chosen from the command line
    conn,            \* tcpmtser: per connection, "listening" | "open" | "closed" | "panicked"
    acc,             \* tcpmtser: per connection, the accumulator `acc`
    buffer,          \* tcpmtser: per connection, `buffer[..len]` of the last read
    index,           \* tcpmtser: per connection, TlvIterator.index over `buffer`
    pc,              \* tcpmtser: per connection, "read" (blocked in stream.read) | "iter" (in the for loop) | "write" (in write_all)
    outbound,        \* tcpmtser: per connection, the bytes the stream carries, answer by answer
    received,        \* history: per connection, the frames of every buffer read, in order
    handled,         \* history: per connection, one record per iteration of the for loop
    arg,             \* codec specifications: the input the function is applied to
    wire,            \* codec specifications: the bytes produced by an encode step
    ret,             \* codec specifications: the value returned by the last step
    phase,           \* codec specifications: which step has been taken
    iter,            \* codec specifications: the TlvIterator {buf, index}
    yielded          \* codec specifications: what each TlvIterator::next call returned

vars == <<overflow_checks, order, conn, acc, buffer, index, pc, outbound,
          received, handled, arg, wire, ret, phase, iter, yielded>>

sessionVars == <<order, conn, acc, buffer, index, pc, outbound, received, handled>>
codecVars == <<arg, wire, ret, phase, iter, yielded>>

-----------------------------------------------------------------------------
(* Result, Option and panic *)

Ok(v) == [kind |-> "Ok", val |-> v]
Err(e) == [kind |-> "Err", err |-> e]
Panic(m) == [kind |-> "Panic", msg |-> m]
Some(v) == [kind |-> "Some", val |-> v]
None == [kind |-> "None"]
Nil == [kind |-> "Nil"]

IsOk(r) == r.kind = "Ok"
IsErr(r) == r.kind = "Err"
IsPanic(r) == r.kind = "Panic"
IsSome(r) == r.kind = "Some"

-----------------------------------------------------------------------------
(* Byte strings *)

\* n bytes, the i-th (from 1) being (seed + i) mod 256
Fill(n, seed) == [i \in 1..n |-> (seed + i) % 256]

RECURSIVE Flatten(_)
Flatten(ss) == IF ss = <<>> THEN <<>> ELSE Head(ss) \o Flatten(Tail(ss))

\* all sequences over S of length 0..n
SeqsUpTo(S, n) == UNION {[1..k -> S] : k \in 0..n}

\* bytes[from..] with a 0-based start, as a Rust slice
SliceFrom(bytes, from) == SubSeq(bytes, from + 1, Len(bytes))

\* bytes[from..to] with 0-based bounds, as a Rust slice
Slice(bytes, from, to) == SubSeq(bytes, from + 1, to)

-----------------------------------------------------------------------------
(* tlv.rs *)

\* enum TlvType, #[repr(u8)]
TlvTypeValue ==
    [Sum |-> 1, Sub |-> 2, Mul |-> 3, Div |-> 4, Rem |-> 5, Fact |-> 6,
     Answer |-> 10, Invalid |-> 11, Numi64 |-> 16]

TlvType == DOMAIN TlvTypeValue

\* IntoPrimitive: TlvType -> u8
TlvType_into(tag) == TlvTypeValue[tag]

\* TryFromPrimitive: u8 -> Result<TlvType, TryFromPrimitiveError>
TlvType_try_from(b) ==
    IF \E t \in TlvType : TlvTypeValue[t] = b
    THEN Ok(CHOOSE t \in TlvType : TlvTypeValue[t] = b)
    ELSE Err("TagUnknown")

\* u8 + u8: panics when overflow checks are on, wraps otherwise
u8_add(a, b, checks) ==
    IF a + b <= 255 THEN Ok(a + b)
    ELSE IF checks THEN Panic("attempt to add with overflow")
    ELSE Ok((a + b) % 256)

\* Tlv::new with the length cast by `as u8` instead of try_into
Tlv_new_truncating(tag, data) ==
    Ok([tag |-> tag, length |-> Len(data) % 256, data |-> data])

\* Tlv::new: the length is data.len() converted to u8
Tlv_new(tag, data) ==
    IF Len(data) <= 255
    THEN Ok([tag |-> tag, length |-> Len(data), data |-> data])
    ELSE Err("ExcessiveLength")

\* Tlv::encode
Tlv_encode(tlv) == <<TlvType_into(tlv.tag), tlv.length>> \o tlv.data

\* Tlv::try_from without the guard on the declared length: the payload is
\* what is left of the buffer when that is less than declared
Tlv_try_from_unguarded(bytes, checks) ==
    IF Len(bytes) < 2 THEN Err("WrongFormat")
    ELSE
      LET tag == TlvType_try_from(bytes[1])
          end == u8_add(2, bytes[2], checks)
      IN  IF IsErr(tag) THEN tag
          ELSE IF IsPanic(end) THEN end
          ELSE IF end.val < 2 THEN Panic("slice index starts at 2 but ends before it")
          ELSE Ok([tag |-> tag.val, length |-> bytes[2],
                   data |-> Slice(bytes, 2, IF end.val > Len(bytes) THEN Len(bytes)
                                            ELSE end.val)])

\* impl TryFrom<&[u8]> for Tlv.  bytes[0] is bytes[1] here, bytes[1] is bytes[2].
Tlv_try_from(bytes, checks) ==
    IF Len(bytes) < 2 THEN Err("WrongFormat")
    ELSE
      LET need == u8_add(bytes[2], 2, checks) IN
      IF IsPanic(need) THEN need
      ELSE IF ~(Len(bytes) >= need.val) THEN Err("WrongFormat")
      ELSE
        LET tag == TlvType_try_from(bytes[1])
            end == u8_add(2, bytes[2], checks)
        IN  IF IsErr(tag) THEN tag
            ELSE IF IsPanic(end) THEN end
            ELSE IF end.val < 2 THEN Panic("slice index starts at 2 but ends before it")
            ELSE IF end.val > Len(bytes) THEN Panic("range end index out of range")
            ELSE Ok([tag |-> tag.val, length |-> bytes[2],
                     data |-> Slice(bytes, 2, end.val)])

\* TlvIterator::process
TlvIterator_process(buf) == [buf |-> buf, index |-> 0]

\* TlvIterator::next: the new iterator and the item returned
TlvIterator_next(it, checks) ==
    IF it.index > Len(it.buf)
    THEN [it |-> it, item |-> Panic("range start index out of range")]
    ELSE
      LET r == Tlv_try_from(SliceFrom(it.buf, it.index), checks) IN
      IF IsOk(r)
      THEN [it |-> [it EXCEPT !.index = @ + 2 + r.val.length], item |-> Some(r.val)]
      ELSE IF IsPanic(r) THEN [it |-> it, item |-> r]
      ELSE [it |-> it, item |-> None]

-----------------------------------------------------------------------------
(* Signed integers *)

I8 == -128..127

\* i8 as u8, i8::to_be_bytes
i8_as_u8(v) == IF v < 0 THEN v + 256 ELSE v

\* i8::from_be_bytes reading the byte as an unsigned value
i8_from_be_bytes_unsigned(b) == b

\* i8::from_be_bytes
i8_from_be_bytes(b) == IF b >= 128 THEN b - 256 ELSE b

\* the checked operation done on the 8-bit operands without widening
i16_checked_unwidened(v) == IF -128 <= v /\ v <= 127 THEN Some(v) ELSE None

\* i16::checked_add / checked_sub / checked_mul on exact integers
i16_checked(v) == IF -32768 <= v /\ v <= 32767 THEN Some(v) ELSE None

Abs(v) == IF v < 0 THEN -v ELSE v

\* integer division rounding toward negative infinity
TruncDiv_floor(a, b) == IF b > 0 THEN a \div b ELSE (-a) \div (-b)

\* integer division truncating toward zero, as Rust's `/`
TruncDiv(a, b) ==
    IF (a < 0) = (b < 0) THEN Abs(a) \div Abs(b) ELSE -(Abs(a) \div Abs(b))

\* i8::checked_div
i8_checked_div(a, b) ==
    IF b = 0 \/ (a = -128 /\ b = -1) THEN None ELSE Some(TruncDiv(a, b))

\* i8::checked_rem
i8_checked_rem(a, b) ==
    IF b = 0 \/ (a = -128 /\ b = -1) THEN None ELSE Some(a - b * TruncDiv(a, b))

\* i64: four 16-bit limbs, two's complement, most significant first
I64_MAX == <<32767, 65535, 65535, 65535>>
I64_MIN == <<32768, 0, 0, 0>>
I64_ZERO == <<0, 0, 0, 0>>

i64_is_negative(x) == x[1] >= 32768

\* i64::from(i16) and i64::from(i8): sign extension
i64_from(v) ==
    IF v >= 0 THEN <<0, 0, 0, v>> ELSE <<65535, 65535, 65535, v + 65536>>

\* i64::wrapping_add
i64_wrapping_add(x, y) ==
    LET s4 == x[4] + y[4]
        s3 == x[3] + y[3] + (s4 \div 65536)
        s2 == x[2] + y[2] + (s3 \div 65536)
        s1 == x[1] + y[1] + (s2 \div 65536)
    IN  <<s1 % 65536, s2 % 65536, s3 % 65536, s4 % 65536>>

\* i64::saturating_add replaced by a wrapping addition
saturating_add_wrapping(x, y) == i64_wrapping_add(x, y)

\* i64::saturating_add
saturating_add(x, y) ==
    LET w == i64_wrapping_add(x, y) IN
    IF i64_is_negative(x) = i64_is_negative(y)
       /\ i64_is_negative(w) # i64_is_negative(x)
    THEN (IF i64_is_negative(x) THEN I64_MIN ELSE I64_MAX)
    ELSE w

\* i64::wrapping_mul in the place of checked_mul
i64_checked_mul_wrapping(n, e) ==
    LET p4 == n[4] * e
        p3 == n[3] * e + (p4 \div 65536)
        p2 == n[2] * e + (p3 \div 65536)
        p1 == n[1] * e + (p2 \div 65536)
    IN  Some(<<p1 % 65536, p2 % 65536, p3 % 65536, p4 % 65536>>)

\* i64::checked_mul(n, e) for the operands the factorial fold gives it:
\* n >= 1 and e in 1..=127
i64_checked_mul(n, e) ==
    LET p4 == n[4] * e
        p3 == n[3] * e + (p4 \div 65536)
        p2 == n[2] * e + (p3 \div 65536)
        p1 == n[1] * e + (p2 \div 65536)
    IN  IF p1 >= 32768 THEN None
        ELSE Some(<<p1, p2 % 65536, p3 % 65536, p4 % 65536>>)

\* i64::to_le_bytes in the place of to_be_bytes
i64_to_le_bytes(x) ==
    << x[4] % 256, x[4] \div 256, x[3] % 256, x[3] \div 256,
       x[2] % 256, x[2] \div 256, x[1] % 256, x[1] \div 256 >>

\* i64::to_be_bytes
i64_to_be_bytes(x) ==
    << x[1] \div 256, x[1] % 256, x[2] \div 256, x[2] % 256,
       x[3] \div 256, x[3] % 256, x[4] \div 256, x[4] % 256 >>

\* i64::from_be_bytes
i64_from_be_bytes(b) ==
    << b[1] * 256 + b[2], b[3] * 256 + b[4], b[5] * 256 + b[6], b[7] * 256 + b[8] >>

-----------------------------------------------------------------------------
(* operation.rs *)

BinaryOps == {"Sum", "Sub", "Mul", "Div", "Rem"}

\* enum Operation over BinomialOperationData<i8, i8> / MonomialOperationData<i8>
Binomial(op, a, b) == [op |-> op, a |-> a, b |-> b]
Monomial(op, a) == [op |-> op, a |-> a]

Operations ==
    { Binomial(op, a, b) : op \in BinaryOps, a \in I8, b \in I8 }
    \cup { Monomial("Fact", a) : a \in I8 }

\* #[error(...)] texts of OperationError, as UTF-8 bytes
OperationError_text ==
    [ Generic |-> <<83, 111, 109, 101, 116, 104, 105, 110, 103, 32, 119, 114, 111, 110, 103>>,
      NotEnoughData |-> <<78, 111, 116, 32, 101, 110, 111, 117, 103, 104, 32, 100, 97, 116,
                          97, 32, 105, 110, 32, 84, 76, 86>>,
      OverFlow |-> <<82, 101, 115, 117, 108, 116, 32, 105, 115, 32, 111, 117, 116, 32, 111,
                     102, 32, 114, 97, 110, 103, 101>>,
      WrongDomain |-> <<87, 114, 111, 110, 103, 32, 100, 111, 109, 97, 105, 110>> ]

\* OperationError::to_string
OperationError_to_string(e) == OperationError_text[e]

\* BinomialOperationData::encode writing the second operand first
BinomialOperationData_encode_swapped(d) == <<i8_as_u8(d.b), i8_as_u8(d.a)>>

\* BinomialOperationData::encode
BinomialOperationData_encode(d) == <<i8_as_u8(d.a), i8_as_u8(d.b)>>

\* MonomialOperationData::encode
MonomialOperationData_encode(d) == <<i8_as_u8(d.a)>>

\* From<[u8; 2]> reading the two operands in the opposite order
BinomialOperationData_from_swapped(op, value) ==
    Binomial(op, i8_from_be_bytes(value[2]), i8_from_be_bytes(value[1]))

\* impl From<[u8; 2]> for BinomialOperationData<i8, i8>
BinomialOperationData_from(op, value) ==
    Binomial(op, i8_from_be_bytes(value[1]), i8_from_be_bytes(value[2]))

\* impl From<[u8; 1]> for MonomialOperationData<i8>
MonomialOperationData_from(op, value) == Monomial(op, i8_from_be_bytes(value[1]))

\* the fold of Operation::reduce over e = from..=a, started with Ok(n): each
\* step multiplies with checked_mul; once a step has given the error, every
\* later step hands it on unchanged (`e => e`), so it is the fold's result
RECURSIVE FactFold(_, _, _)
FactFold(accum, from, a) ==
    IF from > a \/ IsErr(accum) THEN accum
    ELSE LET m == i64_checked_mul(accum.val, from) IN
         FactFold(IF IsSome(m) THEN Ok(m.val) ELSE Err("OverFlow"), from + 1, a)

\* maps None to the given error, as Option::ok_or followed by `?` and into()
ok_or_into(o, e) == IF IsSome(o) THEN Ok(i64_from(o.val)) ELSE Err(e)

\* Operation::reduce
Operation_reduce(o) ==
    CASE o.op = "Sum" -> ok_or_into(i16_checked(o.a + o.b), "OverFlow")
      [] o.op = "Sub" -> ok_or_into(i16_checked(o.a - o.b), "OverFlow")
      [] o.op = "Mul" -> ok_or_into(i16_checked(o.a * o.b), "OverFlow")
      [] o.op = "Div" -> ok_or_into(i8_checked_div(o.a, o.b), "WrongDomain")
      [] o.op = "Rem" -> ok_or_into(i8_checked_rem(o.a, o.b), "WrongDomain")
      [] o.op = "Fact" /\ o.a = 0 -> Ok(i64_from(1))
      [] o.op = "Fact" /\ o.a > 0 -> FactFold(Ok(i64_from(1)), 1, o.a)
      [] OTHER -> Err("WrongDomain")

\* Operation::encode
Operation_encode(o) ==
    IF o.op \in BinaryOps
    THEN Tlv_encode(Tlv_new(o.op, BinomialOperationData_encode(o)).val)
    ELSE Tlv_encode(Tlv_new(o.op, MonomialOperationData_encode(o)).val)

\* impl TryFrom<Tlv> for Operation
Operation_try_from(tlv) ==
    IF tlv.tag \in BinaryOps /\ tlv.length = 2
    THEN IF Len(tlv.data) = 2
         THEN Ok(BinomialOperationData_from(tlv.tag, tlv.data))
         ELSE Err("NotEnoughData")
    ELSE IF tlv.tag = "Fact" /\ tlv.length = 1
    THEN IF Len(tlv.data) = 1
         THEN Ok(MonomialOperationData_from(tlv.tag, tlv.data))
         ELSE Err("NotEnoughData")
    ELSE Err("Generic")

\* a character is a string: the character itself when it is ASCII and can
\* be written in a TLA+ string, the name of its code point otherwise
HexDigits == <<"0", "1", "2", "3", "4", "5", "6", "7", "8", "9",
               "A", "B", "C", "D", "E", "F">>

\* the hexadecimal digits of n, at least w of them
RECURSIVE HexOf(_, _)
HexOf(n, w) ==
    IF w <= 0 /\ n = 0 THEN ""
    ELSE HexOf(n \div 16, w - 1) \o HexDigits[(n % 16) + 1]

\* the character with code point n, n not one of the characters written as
\* themselves
CodePointName(n) == "U+" \o HexOf(n, 4)

\* the digits str::parse::<i8> accepts
AsciiDigits == {"0", "1", "2", "3", "4", "5", "6", "7", "8", "9"}

\* the code points of the decimal digits of the other scripts (general
\* category Nd), as first and last of each run
OtherDigitRuns ==
    { <<1632, 1641>>, <<1776, 1785>>, <<1984, 1993>>, <<2406, 2415>>, <<2534, 2543>>,
      <<2662, 2671>>, <<2790, 2799>>, <<2918, 2927>>, <<3046, 3055>>, <<3174, 3183>>,
      <<3302, 3311>>, <<3430, 3439>>, <<3558, 3567>>, <<3664, 3673>>, <<3792, 3801>>,
      <<3872, 3881>>, <<4160, 4169>>, <<4240, 4249>>, <<6112, 6121>>, <<6160, 6169>>,
      <<6470, 6479>>, <<6608, 6617>>, <<6784, 6793>>, <<6800, 6809>>, <<6992, 7001>>,
      <<7088, 7097>>, <<7232, 7241>>, <<7248, 7257>>, <<42528, 42537>>,
      <<43216, 43225>>, <<43264, 43273>>, <<43472, 43481>>, <<43504, 43513>>,
      <<43600, 43609>>, <<44016, 44025>>, <<65296, 65305>>, <<66720, 66729>>,
      <<68912, 68921>>, <<68928, 68937>>, <<69734, 69743>>, <<69872, 69881>>,
      <<69942, 69951>>, <<70096, 70105>>, <<70384, 70393>>, <<70736, 70745>>,
      <<70864, 70873>>, <<71248, 71257>>, <<71360, 71369>>, <<71376, 71395>>,
      <<71472, 71481>>, <<71904, 71913>>, <<72016, 72025>>, <<72688, 72697>>,
      <<72784, 72793>>, <<73040, 73049>>, <<73120, 73129>>, <<73552, 73561>>,
      <<90416, 90425>>, <<92768, 92777>>, <<92864, 92873>>, <<93008, 93017>>,
      <<93552, 93561>>, <<118000, 118009>>, <<120782, 120831>>, <<123200, 123209>>,
      <<123632, 123641>>, <<124144, 124153>>, <<124401, 124410>>, <<125264, 125273>>,
      <<130032, 130041>> }

\* \d of the regex, which is Unicode-aware: the ASCII digits and the decimal
\* digits of every other script
Digits ==
    AsciiDigits \cup UNION { { CodePointName(n) : n \in r[1]..r[2] } : r \in OtherDigitRuns }

\* the code points of the white space other than U+0020
OtherSpaceCodePoints ==
    {9, 10, 11, 12, 13, 133, 160, 5760} \cup (8192..8202) \cup {8232, 8233, 8239, 8287, 12288}

\* \s of the regex, which is Unicode-aware: the characters with the property
\* White_Space
Spaces == {" "} \cup { CodePointName(n) : n \in OtherSpaceCodePoints }

\* the class [+\-*×x/÷%!] of the regex
OperatorChars == {"+", "-", "*", "U+00D7", "x", "/", "U+00F7", "%", "!"}

\* the first position from i on whose character is not in class C, or
\* Len(t) + 1: where a greedy C* that starts at i stops
SkipWhile(t, i, C) ==
    CHOOSE j \in i..(Len(t) + 1) :
      /\ \A k \in i..(j - 1) : t[k] \in C
      /\ (j = Len(t) + 1 \/ t[j] \notin C)

\* the group (\-?\d+) at position i: the position after it, or 0 when it
\* does not match there
NumberEnd(t, i) ==
    LET d == IF i <= Len(t) /\ t[i] = "-" THEN i + 1 ELSE i
        e == SkipWhile(t, d, Digits)
    IN  IF e > d THEN e ELSE 0

\* regex.captures(s) for ^\s*(\-?\d+)\s*([+\-*×x/÷%!])\s*(\-?\d+)?\s*$ :
\* None, or the three groups, the third one optional.  A digit run is
\* always followed by a character that is no digit, so each group can end in
\* one place only.
Regex_captures(t) ==
    LET a1 == SkipWhile(t, 1, Spaces)
        a2 == NumberEnd(t, a1)
        o1 == SkipWhile(t, a2, Spaces)
        b1 == SkipWhile(t, o1 + 1, Spaces)
        b2 == NumberEnd(t, b1)
        z1 == SkipWhile(t, IF b2 = 0 THEN b1 ELSE b2, Spaces)
    IN  IF a2 = 0 THEN None
        ELSE IF o1 > Len(t) \/ t[o1] \notin OperatorChars THEN None
        ELSE IF z1 <= Len(t) THEN None
        ELSE Some(<< Some(SubSeq(t, a1, a2 - 1)), Some(t[o1]),
                     IF b2 = 0 THEN None ELSE Some(SubSeq(t, b1, b2 - 1)) >>)

\* the value of the decimal digit c
DigitValue(c) ==
    CASE c = "0" -> 0 [] c = "1" -> 1 [] c = "2" -> 2 [] c = "3" -> 3 [] c = "4" -> 4
      [] c = "5" -> 5 [] c = "6" -> 6 [] c = "7" -> 7 [] c = "8" -> 8 [] c = "9" -> 9

\* the number the digits ds read as when it is below 1000; 1000 stands for
\* every larger number
DecimalValue(ds) ==
    LET z == SkipWhile(ds, 1, {"0"})
        sig == SubSeq(ds, z, Len(ds))
    IN  CASE Len(sig) = 0 -> 0
          [] Len(sig) = 1 -> DigitValue(sig[1])
          [] Len(sig) = 2 -> 10 * DigitValue(sig[1]) + DigitValue(sig[2])
          [] Len(sig) = 3 -> 100 * DigitValue(sig[1]) + 10 * DigitValue(sig[2])
                             + DigitValue(sig[3])
          [] OTHER -> 1000

\* str::parse::<i8>() of a text matched by \-?\d+: only ASCII digits are
\* digits to it
i8_parse(m) ==
    LET ds == IF m[1] = "-" THEN Tail(m) ELSE m IN
    IF \E k \in 1..Len(ds) : ds[k] \notin AsciiDigits THEN Err("ParseIntError")
    ELSE LET v == IF m[1] = "-" THEN -DecimalValue(ds) ELSE DecimalValue(ds) IN
         IF -128 <= v /\ v <= 127 THEN Ok(v) ELSE Err("ParseIntError")

\* the second match of from_str with the guards on the third group removed
Operation_select_unguarded(op, has_b, a, b) ==
    CASE op = "+" -> Ok(Binomial("Sum", a, b))
      [] op = "-" -> Ok(Binomial("Sub", a, b))
      [] op \in {"*", "U+00D7", "x"} -> Ok(Binomial("Mul", a, b))
      [] op \in {"/", "U+00F7"} -> Ok(Binomial("Div", a, b))
      [] op = "%" -> Ok(Binomial("Rem", a, b))
      [] op = "!" -> Ok(Monomial("Fact", a))
      [] OTHER -> [kind |-> "Err", err |-> "UnsupportedOperation", op |-> op]

\* the second match of from_str: `match elements[1]`, has_b being
\* elements[2].is_some()
Operation_select(op, has_b, a, b) ==
    CASE op = "+" /\ has_b -> Ok(Binomial("Sum", a, b))
      [] op = "-" /\ has_b -> Ok(Binomial("Sub", a, b))
      [] op \in {"*", "U+00D7", "x"} /\ has_b -> Ok(Binomial("Mul", a, b))
      [] op \in {"/", "U+00F7"} /\ has_b -> Ok(Binomial("Div", a, b))
      [] op = "%" /\ has_b -> Ok(Binomial("Rem", a, b))
      [] op = "!" /\ ~has_b -> Ok(Monomial("Fact", a))
      [] OTHER -> [kind |-> "Err", err |-> "UnsupportedOperation", op |-> op]

\* impl FromStr for Operation
Operation_from_str(t) ==
    LET c == Regex_captures(t) IN
    IF c = None THEN Err("Parse")
    ELSE LET a == i8_parse(c.val[1].val)
             has_b == c.val[3] # None
             b == IF has_b THEN i8_parse(c.val[3].val) ELSE Ok(0)
         IN  IF IsErr(a) THEN a
             ELSE IF IsErr(b) THEN b
             ELSE Operation_select(c.val[2].val, has_b, a.val, b.val)

-----------------------------------------------------------------------------
(* answer.rs *)

\* Numberi64::encode
Numberi64_encode(v) == Tlv_encode(Tlv_new("Numi64", i64_to_be_bytes(v)).val)

\* InvalidOperation::encode
InvalidOperation_encode(m) == Tlv_encode(Tlv_new("Invalid", m).val)

\* impl From<(i64, Option<String>)> for Answer
Answer_from(a, message) == [acc |-> a, message |-> message]

\* Answer::encode putting the accumulator before the message
Answer_encode_acc_first(answer) ==
    LET data == Numberi64_encode(answer.acc)
                \o (IF IsSome(answer.message)
                    THEN InvalidOperation_encode(answer.message.val) ELSE <<>>)
    IN  Tlv_encode(Tlv_new("Answer", data).val)

\* Answer::encode as answer.rs has it: the message first, then the accumulator
Answer_encode(answer) ==
    LET data == (IF IsSome(answer.message)
                 THEN InvalidOperation_encode(answer.message.val) ELSE <<>>)
                \o Numberi64_encode(answer.acc)
    IN  Tlv_encode(Tlv_new("Answer", data).val)

\* Answer::encode(order) as tcpmtser.rs calls it: AnswerOrder::MessageLast puts
\* the accumulator first
Answer_encode_order(answer, ord) ==
    IF ord = "MessageFirst" THEN Answer_encode(answer)
    ELSE LET data == Numberi64_encode(answer.acc)
                     \o (IF IsSome(answer.message)
                         THEN InvalidOperation_encode(answer.message.val) ELSE <<>>)
         IN  Tlv_encode(Tlv_new("Answer", data).val)

\* the unwrap() of InvalidOperation::encode and of Answer::encode: a panic
\* when the message does not fit a frame or the two sub-frames together do not
Answer_encode_unwrap(answer, ord) ==
    LET m == IF IsSome(answer.message)
             THEN Tlv_new("Invalid", answer.message.val) ELSE Ok(Nil)
    IN  IF IsErr(m)
        THEN Panic("called Result::unwrap() on an Err value: ExcessiveLength")
        ELSE LET data == (IF IsSome(answer.message) THEN Tlv_encode(m.val) ELSE <<>>)
                         \o Numberi64_encode(answer.acc)
             IN  IF IsErr(Tlv_new("Answer", data))
                 THEN Panic("called Result::unwrap() on an Err value: ExcessiveLength")
                 ELSE Ok(Answer_encode_order(answer, ord))

\* a UTF-8 continuation byte
Utf8Cont(b) == 128 <= b /\ b <= 191

\* the number of bytes of the well-formed UTF-8 sequence that starts at
\* bytes[i] (1-based), 0 when there is none
Utf8SeqLen(bytes, i) ==
    LET at(k) == IF i + k <= Len(bytes) THEN bytes[i + k] ELSE -1
        b0 == bytes[i]
    IN  CASE b0 <= 127 -> 1
          [] b0 \in 194..223 /\ Utf8Cont(at(1)) -> 2
          [] b0 = 224 /\ at(1) \in 160..191 /\ Utf8Cont(at(2)) -> 3
          [] b0 \in ((225..236) \cup {238, 239}) /\ Utf8Cont(at(1)) /\ Utf8Cont(at(2)) -> 3
          [] b0 = 237 /\ at(1) \in 128..159 /\ Utf8Cont(at(2)) -> 3
          [] b0 = 240 /\ at(1) \in 144..191 /\ Utf8Cont(at(2)) /\ Utf8Cont(at(3)) -> 4
          [] b0 \in 241..243 /\ Utf8Cont(at(1)) /\ Utf8Cont(at(2)) /\ Utf8Cont(at(3)) -> 4
          [] b0 = 244 /\ at(1) \in 128..143 /\ Utf8Cont(at(2)) /\ Utf8Cont(at(3)) -> 4
          [] OTHER -> 0

\* str::from_utf8: the bytes are well-formed sequences one after another, so
\* every byte that is not a continuation byte starts a well-formed sequence
\* that ends where the next such byte, or the end, is
str_from_utf8(bytes) ==
    IF \A i \in 1..Len(bytes) :
          IF Utf8Cont(bytes[i]) THEN i > 1
          ELSE LET n == Utf8SeqLen(bytes, i) IN
               n > 0 /\ (i + n > Len(bytes) \/ ~Utf8Cont(bytes[i + n]))
    THEN Ok(bytes) ELSE Err("Utf8Error")

\* Numberi64::try_from leaving out the length test
Numberi64_try_from_any_length(tlv) ==
    IF tlv.tag = "Numi64"
    THEN IF Len(tlv.data) >= 8
         THEN Ok(i64_from_be_bytes(tlv.data)) ELSE Err("NotEnoughData")
    ELSE Err("Generic")

\* impl TryFrom<&Tlv> for Numberi64
Numberi64_try_from(tlv) ==
    IF tlv.tag = "Numi64" /\ tlv.length = 8
    THEN IF Len(tlv.data) = 8
         THEN Ok(i64_from_be_bytes(tlv.data)) ELSE Err("NotEnoughData")
    ELSE Err("Generic")

\* impl TryFrom<&Tlv> for InvalidOperation
InvalidOperation_try_from(tlv) ==
    IF tlv.tag = "Invalid" /\ tlv.length > 0
    THEN str_from_utf8(tlv.data)
    ELSE Err("Generic")

\* the for loop of Answer::try_from and the test that follows it: every
\* Numi64 and every Invalid sub-frame is converted and stored, a failed
\* conversion returns at once
RECURSIVE Answer_scan(_, _, _, _)
Answer_scan(it, acc_tlv, message, checks) ==
    LET Body(r) ==
          IF IsPanic(r.item) THEN r.item
          ELSE IF r.item.kind = "None"
          THEN (IF IsSome(acc_tlv)
                THEN Ok([acc |-> acc_tlv.val, message |-> message])
                ELSE Err("Generic"))
          ELSE LET tlv == r.item.val IN
               CASE tlv.tag = "Numi64" ->
                      LET n == Numberi64_try_from(tlv) IN
                      IF IsOk(n) THEN Answer_scan(r.it, Some(n.val), message, checks) ELSE n
                 [] tlv.tag = "Invalid" ->
                      LET m == InvalidOperation_try_from(tlv) IN
                      IF IsOk(m) THEN Answer_scan(r.it, acc_tlv, Some(m.val), checks) ELSE m
                 [] OTHER -> Answer_scan(r.it, acc_tlv, message, checks)
    IN  \* one call of next() per turn of the loop
        CHOOSE out \in { Body(r) : r \in {TlvIterator_next(it, checks)} } : TRUE

\* impl TryFrom<Tlv> for Answer
Answer_try_from(tlv, checks) ==
    IF tlv.tag = "Answer" /\ tlv.length > 0
    THEN Answer_scan(TlvIterator_process(tlv.data), None, None, checks)
    ELSE Err("Generic")

-----------------------------------------------------------------------------
(* bin/tcpmtser.rs: the thread spawned for each accepted connection *)

\* the `acc.saturating_add(result)` of the success arm
Accumulate(a, result) == saturating_add(a, result)

\* the body of the for loop up to `answer`, with a failure restarting the accumulator
HandleTlv_reset_on_error(a, tlv) ==
    LET o == Operation_try_from(tlv)
        res == IF IsOk(o)
               THEN LET r == Operation_reduce(o.val) IN
                    IF IsOk(r) THEN Ok([operation |-> o.val, result |-> r.val]) ELSE r
               ELSE o
    IN  IF IsOk(res)
        THEN [res |-> res, acc |-> Accumulate(a, res.val.result),
              answer |-> <<Accumulate(a, res.val.result), None>>]
        ELSE [res |-> res, acc |-> I64_ZERO,
              answer |-> <<I64_ZERO, Some(OperationError_to_string(res.err))>>]

\* the body of the for loop up to `answer`: decode the frame into an
\* Operation, reduce it, update the accumulator, build (acc, Option<String>)
HandleTlv(a, tlv) ==
    LET o == Operation_try_from(tlv)
        res == IF IsOk(o)
               THEN LET r == Operation_reduce(o.val) IN
                    IF IsOk(r) THEN Ok([operation |-> o.val, result |-> r.val]) ELSE r
               ELSE o
    IN  IF IsOk(res)
        THEN [res |-> res, acc |-> Accumulate(a, res.val.result),
              answer |-> <<Accumulate(a, res.val.result), None>>]
        ELSE [res |-> res, acc |-> a,
              answer |-> <<a, Some(OperationError_to_string(res.err))>>]

\* the loop leaving the thread when the request failed as well
LoopControl_return_on_error(res, wrote) ==
    IF wrote /\ IsOk(res) THEN "continue" ELSE "return"

\* what follows the write: the thread returns only when write_all failed
LoopControl(res, wrote) == IF wrote THEN "continue" ELSE "return"

\* one accumulator shared by every connection
StoreAcc_shared(accs, s, v) == [t \in DOMAIN accs |-> v]

\* `acc` is a local of the connection's own closure
StoreAcc(accs, s, v) == [accs EXCEPT ![s] = v]

InitSessions(S) ==
    /\ overflow_checks \in BOOLEAN
    /\ order \in {"MessageFirst", "MessageLast"}
    /\ conn = [s \in S |-> "listening"]
    /\ acc = [s \in S |-> I64_ZERO]
    /\ buffer = [s \in S |-> <<>>]
    /\ index = [s \in S |-> 0]
    /\ pc = [s \in S |-> "read"]
    /\ outbound = [s \in S |-> <<>>]
    /\ received = [s \in S |-> <<>>]
    /\ handled = [s \in S |-> <<>>]
    /\ arg = Nil /\ wire = <<>> /\ ret = Nil /\ phase = "start"
    /\ iter = Nil /\ yielded = <<>>

\* listener.accept() and thread::spawn: acc = 0, a fresh buffer
Accept(s) ==
    /\ conn[s] = "listening"
    /\ conn' = [conn EXCEPT ![s] = "open"]
    /\ acc' = StoreAcc(acc, s, I64_ZERO)
    /\ pc' = [pc EXCEPT ![s] = "read"]
    /\ UNCHANGED <<overflow_checks, order, buffer, index, outbound, received,
                   handled, codecVars>>

\* stream.read returns Ok(len) with len > 0: the bytes of `frames`
Read(s, frames) ==
    /\ conn[s] = "open" /\ pc[s] = "read"
    /\ Len(Flatten(frames)) > 0 /\ Len(Flatten(frames)) <= 2048
    /\ buffer' = [buffer EXCEPT ![s] = Flatten(frames)]
    /\ index' = [index EXCEPT ![s] = 0]
    /\ pc' = [pc EXCEPT ![s] = "iter"]
    /\ received' = [received EXCEPT ![s] = @ \o frames]
    /\ UNCHANGED <<overflow_checks, order, conn, acc, outbound, handled, codecVars>>

\* stream.read returns Ok(0) or an error: the thread returns
ReadEnd(s) ==
    /\ conn[s] = "open" /\ pc[s] = "read"
    /\ conn' = [conn EXCEPT ![s] = "closed"]
    /\ UNCHANGED <<overflow_checks, order, acc, buffer, index, pc, outbound,
                   received, handled, codecVars>>

\* the bytes a write() takes when it does not take all
ShortWrite == 3

\* the bytes of the answer being written that no write() has taken yet
Unwritten(h) == SubSeq(h.bytes, h.sent + 1, Len(h.bytes))

\* the sizes a write() may take of `rem` bytes: a few of them or all
WriteSizes(rem) == {n \in {ShortWrite, rem} : 1 <= n /\ n <= rem}

\* one turn of `for tlv in TlvIterator::process(&buffer[..len])` up to the
\* call of write_all: next(), then the body, which updates acc, prints and
\* encodes the answer.  The loop ends on None; a panic ends the thread.
Iterate(s) ==
    /\ conn[s] = "open" /\ pc[s] = "iter"
    /\ \E r \in {TlvIterator_next([buf |-> buffer[s], index |-> index[s]],
                                  overflow_checks)} :
       \/ /\ r.item.kind = "None"
          /\ pc' = [pc EXCEPT ![s] = "read"]
          /\ UNCHANGED <<conn, acc, index, handled>>
       \/ /\ IsPanic(r.item)
          /\ conn' = [conn EXCEPT ![s] = "panicked"]
          /\ UNCHANGED <<acc, index, pc, handled>>
       \/ /\ IsSome(r.item)
          /\ \E h \in {HandleTlv(acc[s], r.item.val)} :
               /\ index' = [index EXCEPT ![s] = r.it.index]
               /\ acc' = StoreAcc(acc, s, h.acc)
               /\ handled' = [handled EXCEPT ![s] =
                     Append(@, [tlv |-> r.item.val, before |-> acc[s], res |-> h.res,
                                after |-> acc'[s], answer |-> h.answer,
                                bytes |-> Answer_encode_order(
                                            Answer_from(h.answer[1], h.answer[2]), order),
                                sent |-> 0, written |-> FALSE])]
               /\ pc' = [pc EXCEPT ![s] = "write"]
               /\ conn' = conn
    /\ UNCHANGED <<overflow_checks, order, buffer, outbound, received, codecVars>>

\* one write() of the loop inside write_all: it takes the first n of the
\* bytes left.  outbound[s][k] is what the stream carries of the k-th answer.
\* When nothing is left write_all returns Ok and the for loop goes on.
Write(s, n) ==
    /\ conn[s] = "open" /\ pc[s] = "write"
    /\ LET k == Len(handled[s])
           h == handled[s][k]
           done == h.sent + n = Len(h.bytes)
       IN  /\ n \in 1..Len(Unwritten(h))
           /\ outbound' = [outbound EXCEPT ![s] =
                 IF h.sent = 0 THEN Append(@, SubSeq(h.bytes, 1, n))
                 ELSE [@ EXCEPT ![Len(@)] = @ \o SubSeq(Unwritten(h), 1, n)]]
           /\ handled' = [handled EXCEPT ![s][k].sent = @ + n,
                                         ![s][k].written = done]
           /\ pc' = [pc EXCEPT ![s] = IF done THEN "iter" ELSE "write"]
           /\ conn' = IF done /\ LoopControl(h.res, TRUE) = "return"
                      THEN [conn EXCEPT ![s] = "closed"] ELSE conn
    /\ UNCHANGED <<overflow_checks, order, acc, buffer, index, received, codecVars>>

\* a write() that fails or takes no byte: write_all returns the error and
\* the thread returns
WriteFail(s) ==
    /\ conn[s] = "open" /\ pc[s] = "write"
    /\ conn' = IF LoopControl(handled[s][Len(handled[s])].res, FALSE) = "return"
               THEN [conn EXCEPT ![s] = "closed"] ELSE conn
    /\ pc' = [pc EXCEPT ![s] = IF conn'[s] = "open" THEN "iter" ELSE "write"]
    /\ UNCHANGED <<overflow_checks, order, acc, buffer, index, outbound, received,
                   handled, codecVars>>

\* the sizes the next write() of the session may take
NextWriteSizes(s) ==
    IF pc[s] = "write"
    THEN WriteSizes(Len(Unwritten(handled[s][Len(handled[s])]))) ELSE {}

-----------------------------------------------------------------------------
(* The frame codec applied to bounded inputs *)

MaxTlvItems == 3
MaxNoneCalls == 2
MaxPayload == 257

\* byte chunks a buffer is built from: whole frames, an unregistered frame,
\* a lone unregistered tag byte, a truncated frame
TlvItems ==
    { <<1, 2, 0, 0>>, <<1, 0>>, <<6, 1, 2>>, <<20, 0>>, <<20>>, <<1, 2, 7>> }

\* a frame header with tag byte t and length byte n, followed by `have` payload bytes
RawFrame(t, n, have) == <<t, n>> \o Fill(have, n)

\* for every length byte: the whole frame, the frame one byte short, the
\* frame followed by another frame; with a registered and an unregistered tag
LengthSweep ==
    UNION { { RawFrame(t, n, n),
              RawFrame(t, n, IF n > 0 THEN n - 1 ELSE 0),
              RawFrame(t, n, n) \o <<1, 2, 0, 0>> } : t \in {1, 20}, n \in 0..255 }

\* for every tag byte: an empty frame and a frame with two payload bytes
TagSweep == UNION { { <<t, 0>>, <<t, 2, 127, 255>> } : t \in 0..255 }

TlvBuffers ==
    { Flatten(items) : items \in SeqsUpTo(TlvItems, MaxTlvItems) }
    \cup LengthSweep \cup TagSweep

TlvInputs ==
    { [kind |-> "bytes", bytes |-> b] : b \in TlvBuffers }
    \cup { [kind |-> "tagged", tag |-> t, data |-> Fill(n, 0)] :
              t \in TlvType, n \in 0..MaxPayload }

NoSession == [s \in {} |-> 0]

InitTlv ==
    /\ overflow_checks \in BOOLEAN
    /\ order = "MessageFirst"
    /\ conn = NoSession /\ acc = NoSession /\ buffer = NoSession
    /\ index = NoSession /\ pc = NoSession /\ outbound = NoSession
    /\ received = NoSession /\ handled = NoSession
    /\ arg \in TlvInputs
    /\ wire = <<>>
    /\ ret = Nil
    /\ phase = "start"
    /\ iter = Nil
    /\ yielded = <<>>

\* Tlv::try_from(&bytes[..])
TlvDecode ==
    /\ phase = "start" /\ arg.kind = "bytes"
    /\ ret' = Tlv_try_from(arg.bytes, overflow_checks)
    /\ phase' = "decoded"
    /\ UNCHANGED <<overflow_checks, sessionVars, arg, wire, iter, yielded>>

\* Tlv::new(tag, data).map(Tlv::encode)
TlvEncode ==
    /\ phase = "start" /\ arg.kind = "tagged"
    /\ LET t == Tlv_new(arg.tag, arg.data) IN
         /\ ret' = t
         /\ wire' = IF IsOk(t) THEN Tlv_encode(t.val) ELSE <<>>
    /\ phase' = "encoded"
    /\ UNCHANGED <<overflow_checks, sessionVars, arg, iter, yielded>>

\* TlvIterator::process(&bytes[..])
TlvIterProcess ==
    /\ phase = "start" /\ arg.kind = "bytes"
    /\ iter' = TlvIterator_process(arg.bytes)
    /\ phase' = "iterating"
    /\ UNCHANGED <<overflow_checks, sessionVars, arg, wire, ret, yielded>>

NoneCalls(ys) == Cardinality({k \in 1..Len(ys) : ys[k].kind = "None"})

\* one call of TlvIterator::next; calls go on after the first None
TlvIterNext ==
    /\ phase = "iterating"
    /\ NoneCalls(yielded) < MaxNoneCalls
    /\ LET r == TlvIterator_next(iter, overflow_checks) IN
         /\ iter' = r.it
         /\ yielded' = Append(yielded, r.item)
         /\ phase' = IF IsPanic(r.item) THEN "panicked" ELSE "iterating"
    /\ UNCHANGED <<overflow_checks, sessionVars, arg, wire, ret>>

NextTlv == TlvDecode \/ TlvEncode \/ TlvIterProcess \/ TlvIterNext

SpecTlv == InitTlv /\ [][NextTlv]_vars

-----------------------------------------------------------------------------
(* Claims about the frame codec, checked under SpecTlv *)

\* the tag bytes of the registry, as the wire format lists them
RegisteredTags == {1, 2, 3, 4, 5, 6, 10, 11, 16}

\* 0-based offset of the k-th frame of buf, each length byte read in place
RECURSIVE FrameOffset(_, _)
FrameOffset(buf, k) ==
    IF k = 1 THEN 0
    ELSE LET o == FrameOffset(buf, k - 1) IN o + 2 + buf[o + 2]

\* C6: the k-th call of the sequential reader returns the frame decoded at
\* the k-th offset (offset 0, then 2 + length past the previous frame) as
\* long as every earlier call returned a frame; at the first offset where
\* decoding fails for any reason the sequence ends: the call returns no
\* frame, and no later call returns a frame either.
C6_ReaderStopsAtFirstFailure ==
    phase \in {"iterating", "panicked"} =>
      \A k \in 1..Len(yielded) :
        IF \A j \in 1..(k - 1) : IsSome(yielded[j])
        THEN LET d == Tlv_try_from(SliceFrom(arg.bytes, FrameOffset(arg.bytes, k)),
                                   overflow_checks)
             IN  /\ IsOk(d) => (IsSome(yielded[k]) /\ yielded[k].val = d.val)
                 /\ ~IsOk(d) => yielded[k].kind = "None"
        ELSE yielded[k].kind = "None"

\* the same where decoding returns: a frame is yielded where decoding
\* succeeds, the sequence ends where it returns an error, and a panic of the
\* decoder is a panic of the call
C6_ReaderStopsWhereDecodeReturns ==
    phase \in {"iterating", "panicked"} =>
      \A k \in 1..Len(yielded) :
        IF \A j \in 1..(k - 1) : IsSome(yielded[j])
        THEN LET d == Tlv_try_from(SliceFrom(arg.bytes, FrameOffset(arg.bytes, k)),
                                   overflow_checks)
             IN  /\ IsOk(d) => (IsSome(yielded[k]) /\ yielded[k].val = d.val)
                 /\ IsErr(d) => yielded[k].kind = "None"
                 /\ IsPanic(d) => IsPanic(yielded[k])
        ELSE yielded[k].kind = "None"

\* C7: decoding succeeds for every buffer of at least 2 bytes with a
\* registered tag and at least 2 + bytes[1] bytes, for every length byte
\* 0..255, giving length bytes[1] and the bytes[1] bytes after the header as
\* payload; every buffer shorter than 2 or than 2 + bytes[1] bytes fails
\* with the format error.
C7_DecodeEveryLength ==
    phase = "decoded" =>
      LET b == arg.bytes IN
      /\ (Len(b) >= 2 /\ b[1] \in RegisteredTags /\ Len(b) >= 2 + b[2]) =>
           /\ IsOk(ret)
           /\ TlvTypeValue[ret.val.tag] = b[1]
           /\ ret.val.length = b[2]
           /\ ret.val.data = SubSeq(b, 3, 2 + b[2])
      /\ (Len(b) < 2 \/ Len(b) < 2 + b[2]) =>
           (IsErr(ret) /\ ret.err = "WrongFormat")

\* C8: decoding a whole frame whose tag byte is outside the registry fails
\* with the unknown-tag error.
C8_UnknownTagFails ==
    phase = "decoded" =>
      LET b == arg.bytes IN
      (Len(b) >= 2 /\ Len(b) >= 2 + b[2] /\ b[1] \notin RegisteredTags) =>
        (IsErr(ret) /\ ret.err = "TagUnknown")

\* C9: encoding a tag and a payload of at most 255 bytes gives the tag byte,
\* one length byte equal to the payload size and the payload unchanged; a
\* longer payload fails with the length error and no bytes are produced.
C9_EncodeLayout ==
    phase = "encoded" =>
      IF Len(arg.data) <= 255
      THEN /\ IsOk(ret)
           /\ Len(wire) = 2 + Len(arg.data)
           /\ wire[1] \in RegisteredTags /\ wire[1] = TlvTypeValue[arg.tag]
           /\ wire[2] = Len(arg.data)
           /\ SubSeq(wire, 3, Len(wire)) = arg.data
      ELSE /\ IsErr(ret) /\ ret.err = "ExcessiveLength"
           /\ wire = <<>>

\* C9 witness: a payload of the largest size that fits has been encoded.
C9_Witness ==
    /\ phase = "encoded"
    /\ Len(arg.data) = 255
    /\ IsOk(ret) /\ Len(wire) = 257


\* the frames among the items returned so far
FramesOf(ys) == SelectSeq(ys, IsSome)

\* 0-based offset of the k-th returned frame when the frames returned
\* before it lie one after the other from offset 0
RECURSIVE YieldedOffset(_, _)
YieldedOffset(fs, k) ==
    IF k = 1 THEN 0 ELSE YieldedOffset(fs, k - 1) + 2 + fs[k - 1].val.length

\* C24: for every buffer, the reader's offset never exceeds the buffer
\* length, every frame returned lies wholly inside the buffer (header and
\* payload are the bytes at its offset), the frames returned follow one
\* another without gap or overlap from offset 0 up to the reader's offset,
\* and at most floor(buffer length / 2) frames are returned.
C24_ReaderWithinBuffer ==
    phase \in {"iterating", "panicked"} =>
      LET fs == FramesOf(yielded) IN
      /\ iter.index <= Len(arg.bytes)
      /\ iter.index = YieldedOffset(fs, Len(fs) + 1)
      /\ \A k \in 1..Len(fs) :
           LET o == YieldedOffset(fs, k)
               f == fs[k].val
           IN  /\ o + 2 + f.length <= Len(arg.bytes)
               /\ Len(f.data) = f.length
               /\ arg.bytes[o + 1] = TlvType_into(f.tag)
               /\ arg.bytes[o + 2] = f.length
               /\ f.data = SubSeq(arg.bytes, o + 3, o + 2 + f.length)
      /\ Len(fs) <= Len(arg.bytes) \div 2

\* C24 witness: the reader returned two frames with a payload and ended at
\* an offset short of the buffer's end, where a truncated frame is left.
C24_Witness ==
    /\ phase = "iterating"
    /\ Len(FramesOf(yielded)) = 2
    /\ yielded[Len(yielded)].kind = "None"
    /\ \A k \in 1..2 : FramesOf(yielded)[k].val.length > 0
    /\ iter.index < Len(arg.bytes)
    /\ LET rest == SliceFrom(arg.bytes, iter.index) IN
         Len(rest) >= 2 /\ Len(rest) < 2 + rest[2]
-----------------------------------------------------------------------------
(* The operation codec applied to every Operation *)

InitOp ==
    /\ overflow_checks \in BOOLEAN
    /\ order = "MessageFirst"
    /\ conn = NoSession /\ acc = NoSession /\ buffer = NoSession
    /\ index = NoSession /\ pc = NoSession /\ outbound = NoSession
    /\ received = NoSession /\ handled = NoSession
    /\ arg = Nil
    /\ wire = <<>>
    /\ ret = Nil
    /\ phase = "start"
    /\ iter = Nil
    /\ yielded = <<>>

\* operation.encode(), as the client does before write_all
OpEncode ==
    /\ phase = "start"
    /\ \E o \in Operations :
         /\ arg' = o
         /\ wire' = Operation_encode(o)
    /\ phase' = "encoded"
    /\ UNCHANGED <<overflow_checks, sessionVars, ret, iter, yielded>>

\* Tlv::try_from(bytes) followed by Operation::try_from(tlv), as the server does
\* with each frame
OpDecode ==
    /\ phase = "encoded"
    /\ LET t == Tlv_try_from(wire, overflow_checks) IN
         ret' = IF IsOk(t) THEN Operation_try_from(t.val) ELSE t
    /\ phase' = "decoded"
    /\ UNCHANGED <<overflow_checks, sessionVars, arg, wire, iter, yielded>>

NextOp == OpEncode \/ OpDecode

SpecOp == InitOp /\ [][NextOp]_vars

\* C10: decoding the frame produced by encoding an Operation gives back an
\* Operation equal to the original, for every operator and every operand
\* in -128..127.
C10_OperationRoundTrip ==
    phase = "decoded" => (IsOk(ret) /\ ret.val = arg)

\* C10 witness: an operation with two negative operands has been encoded to
\* bytes above 127 and decoded again.
C10_Witness ==
    /\ phase = "decoded"
    /\ arg.op = "Sub" /\ arg.a = -128 /\ arg.b = -1
    /\ wire = <<2, 2, 128, 255>>

\* C19: encoding an Operation gives its tag byte (Add 1, Sub 2, Mul 3, Div 4,
\* Mod 5, Factorial 6), a length byte equal to its operand count (2, or 1 for
\* Factorial), then each operand as one two's-complement byte in operand
\* order, a negative operand v being written as 256 + v.
C19_OperationEncodeBytes ==
    phase \in {"encoded", "decoded"} =>
      LET byte(v) == IF v < 0 THEN 256 + v ELSE v
          tag == CASE arg.op = "Sum" -> 1 [] arg.op = "Sub" -> 2
                   [] arg.op = "Mul" -> 3 [] arg.op = "Div" -> 4
                   [] arg.op = "Rem" -> 5 [] arg.op = "Fact" -> 6
      IN  IF arg.op = "Fact"
          THEN wire = <<tag, 1, byte(arg.a)>>
          ELSE wire = <<tag, 2, byte(arg.a), byte(arg.b)>>

\* C19 witness: Sub(10,-10) was encoded to 2, 2, 10, 246, as in the test
\* encode_sub.
C19_Witness ==
    /\ phase = "encoded"
    /\ arg = [op |-> "Sub", a |-> 10, b |-> -10]
    /\ wire = <<2, 2, 10, 246>>

-----------------------------------------------------------------------------
(* One connection fed request frames *)

MaxRequests == 4

\* Sub(-128,127), Div(5,0), Fact(20), Fact(21), an Add frame with one operand
\* too few, an Add frame with a 254-byte payload
RequestFrames ==
    { <<2, 2, 128, 127>>, <<4, 2, 5, 0>>, <<6, 1, 20>>, <<6, 1, 21>>,
      <<1, 1, 5>>, RawFrame(1, 254, 254) }

Init == InitSessions({1})

Next ==
    \E s \in {1} :
      \/ Accept(s)
      \/ \E frames \in SeqsUpTo(RequestFrames, MaxRequests - Len(received[s])) :
           Read(s, frames)
      \/ ReadEnd(s)
      \/ Iterate(s)
      \/ \E n \in NextWriteSizes(s) : Write(s, n)
      \/ WriteFail(s)

Spec == Init /\ [][Next]_vars

-----------------------------------------------------------------------------
(* Claims about one connection, checked under Spec *)

\* x + 2^63 as an unsigned 64-bit number (the sign bit flipped)
Offset(x) == <<(x[1] + 32768) % 65536, x[2], x[3], x[4]>>

\* the exact sum of two unsigned 64-bit numbers, in five limbs
WideSum(u, v) ==
    LET s4 == u[4] + v[4]
        s3 == u[3] + v[3] + (s4 \div 65536)
        s2 == u[2] + v[2] + (s3 \div 65536)
        s1 == u[1] + v[1] + (s2 \div 65536)
    IN  <<s1 \div 65536, s1 % 65536, s2 % 65536, s3 % 65536, s4 % 65536>>

\* u < v for limb sequences of one length
LimbLess(u, v) ==
    \E i \in 1..Len(u) : u[i] < v[i] /\ \A j \in 1..(i - 1) : u[j] = v[j]

\* the mathematical sum a + r clamped to [-2^63, 2^63 - 1]: with
\* w = (a + 2^63) + (r + 2^63) = a + r + 2^64, the sum is below the range when
\* w < 2^63, above it when w > 2^64 + 2^63 - 1, and otherwise its two's
\* complement form is the low 64 bits of w
SaturatingSum(a, r) ==
    LET w == WideSum(Offset(a), Offset(r)) IN
    IF LimbLess(w, <<0, 32768, 0, 0, 0>>) THEN <<32768, 0, 0, 0>>
    ELSE IF LimbLess(<<1, 32767, 65535, 65535, 65535>>, w)
         THEN <<32767, 65535, 65535, 65535>>
    ELSE <<w[2], w[3], w[4], w[5]>>

\* the request failed in evaluation: Overflow or WrongDomain
EvaluationFailed(h) == IsErr(h.res) /\ h.res.err \in {"OverFlow", "WrongDomain"}

\* C1: the accumulator starts at 0 and is carried from request to request;
\* for every request whose evaluation succeeds with result r the accumulator
\* afterwards is the sum of the accumulator before and r clamped to the
\* signed 64-bit range, and the response holds that value and no diagnostic.
C1_SuccessSaturatingAdd ==
    \A s \in DOMAIN handled :
      /\ acc[s] = IF handled[s] = <<>> THEN <<0, 0, 0, 0>>
                  ELSE handled[s][Len(handled[s])].after
      /\ \A k \in 1..Len(handled[s]) :
           LET h == handled[s][k] IN
           /\ h.before = IF k = 1 THEN <<0, 0, 0, 0>> ELSE handled[s][k - 1].after
           /\ IsOk(h.res) =>
                /\ h.after = SaturatingSum(h.before, h.res.val.result)
                /\ h.answer = <<h.after, None>>
                /\ h.written => outbound[s][k] = h.bytes
                /\ h.bytes = Answer_encode_order(Answer_from(h.after, None), order)

\* C1 witness: a successful request has driven the accumulator from below
\* the largest 64-bit value onto it, and its response was written.
C1_Witness ==
    \E k \in 1..Len(handled[1]) :
      LET h == handled[1][k] IN
      /\ IsOk(h.res) /\ h.written
      /\ h.before # <<32767, 65535, 65535, 65535>>
      /\ h.after = <<32767, 65535, 65535, 65535>>
      /\ h.after # i64_wrapping_add(h.before, h.res.val.result)

\* C2: for every request whose decoding into an Operation or whose
\* evaluation fails, the accumulator afterwards equals the accumulator
\* before, and the response holds that value and a diagnostic with the
\* error's text.
C2_FailureKeepsAccumulator ==
    \A s \in DOMAIN handled :
      \A k \in 1..Len(handled[s]) :
        LET h == handled[s][k] IN
        IsErr(h.res) =>
          /\ h.after = h.before
          /\ (k = Len(handled[s]) => acc[s] = h.before)
          /\ (k < Len(handled[s]) => handled[s][k + 1].before = h.before)
          /\ h.answer[1] = h.before
          /\ IsSome(h.answer[2])
          /\ h.answer[2].val = OperationError_text[h.res.err]
          /\ Len(h.answer[2].val) > 0
          /\ h.written => outbound[s][k] = h.bytes

\* C2 witness: a division by zero was answered while the accumulator was
\* not 0, and a malformed operation frame was answered too.
C2_Witness ==
    /\ \E k \in 1..Len(handled[1]) :
         LET h == handled[1][k] IN
         /\ IsErr(h.res) /\ h.res.err = "WrongDomain" /\ h.written
         /\ h.before # <<0, 0, 0, 0>>
    /\ \E k \in 1..Len(handled[1]) :
         IsErr(handled[1][k].res) /\ handled[1][k].res.err = "Generic"

\* a whole frame with a request tag (1 to 6)
WholeRequestFrame(f) == Len(f) >= 2 /\ f[1] \in 1..6 /\ Len(f) = 2 + f[2]

\* C3: for any sequence of whole request frames, however they are split
\* over buffers, once the session has gone through the buffers it has read
\* it has emitted exactly one response per request, the k-th response for
\* the k-th request, holding the accumulator right after that request.
C3_OneResponsePerRequest ==
    \A s \in DOMAIN received :
      ( /\ \A k \in 1..Len(received[s]) : WholeRequestFrame(received[s][k])
        /\ (conn[s] = "open" /\ pc[s] = "read") \/ conn[s] = "panicked" )
      =>
      /\ Len(outbound[s]) = Len(received[s])
      /\ Len(handled[s]) = Len(received[s])
      /\ \A k \in 1..Len(outbound[s]) :
           /\ Tlv_encode(handled[s][k].tlv) = received[s][k]
           /\ handled[s][k].answer[1] = handled[s][k].after
           /\ outbound[s][k] =
                Answer_encode_order(Answer_from(handled[s][k].answer[1],
                                                handled[s][k].answer[2]), order)

\* C4: a request that fails evaluation and is answered does not end the
\* session; once the session is back in read with the connection open,
\* every request received after it, in the same buffer or a later one, has
\* been evaluated and answered.
C4_EvaluationErrorNotFatal ==
    \A s \in DOMAIN handled :
      \A k \in 1..Len(handled[s]) :
        (EvaluationFailed(handled[s][k]) /\ handled[s][k].written) =>
          /\ (k = Len(handled[s])) => ~(conn[s] = "closed" /\ pc[s] = "iter")
          /\ (conn[s] = "open" /\ pc[s] = "read") =>
               /\ Len(handled[s]) = Len(received[s])
               /\ \A j \in (k + 1)..Len(received[s]) :
                    LET h == handled[s][j]
                        o == Operation_try_from(h.tlv)
                    IN  /\ Tlv_encode(h.tlv) = received[s][j]
                        /\ h.written /\ outbound[s][j] = h.bytes
                        /\ IsOk(o) =>
                             LET r == Operation_reduce(o.val) IN
                             IF IsOk(r) THEN IsOk(h.res) /\ h.res.val.result = r.val
                             ELSE h.res = r

\* C4 witness: an overflow in an earlier buffer and a division by zero in
\* the last buffer were both followed by requests that were evaluated and
\* answered, the last one in the same buffer as the division by zero.
C4_Witness ==
    /\ conn[1] = "open" /\ pc[1] = "read"
    /\ Len(handled[1]) = 4
    /\ buffer[1] = <<4, 2, 5, 0, 2, 2, 128, 127>>
    /\ handled[1][1].res = Err("OverFlow")
    /\ handled[1][3].res = Err("WrongDomain")
    /\ IsOk(handled[1][2].res) /\ IsOk(handled[1][4].res)
    /\ \A k \in 1..4 : handled[1][k].written


-----------------------------------------------------------------------------
(* Several connections served at once *)

\* two connections accepted by the listener, each with its own thread
ConcSessions == {1, 2}

\* the frames all connections together may receive
MaxConcRequests == 3

\* Add(2,3), Mul(10,10), Div(5,0)
ConcFrames == { <<1, 2, 2, 3>>, <<3, 2, 10, 10>>, <<4, 2, 5, 0>> }

RECURSIVE SumLen(_, _)
SumLen(f, S) ==
    IF S = {} THEN 0
    ELSE LET x == CHOOSE y \in S : TRUE IN Len(f[x]) + SumLen(f, S \ {x})

\* the frames read so far by all connections together
TotalReceived == SumLen(received, DOMAIN received)

InitConc == InitSessions(ConcSessions)

NextConc ==
    \E s \in ConcSessions :
      \/ Accept(s)
      \/ \E frames \in SeqsUpTo(ConcFrames, MaxConcRequests - TotalReceived) :
           Read(s, frames)
      \/ ReadEnd(s)
      \/ Iterate(s)
      \/ \E n \in NextWriteSizes(s) : Write(s, n)
      \/ WriteFail(s)

SpecConc == InitConc /\ [][NextConc]_vars

\* a session alone: the responses to the first n frames of a byte stream, and
\* the accumulator after them, starting from accumulator a
RECURSIVE SoloRun(_, _, _, _, _, _)
SoloRun(a, it, n, out, ord, checks) ==
    IF n = 0 THEN [out |-> out, acc |-> a]
    ELSE LET r == TlvIterator_next(it, checks) IN
         IF ~IsSome(r.item) THEN [out |-> out, acc |-> a]
         ELSE LET h == HandleTlv(a, r.item.val) IN
              SoloRun(h.acc, r.it, n - 1,
                      Append(out, Answer_encode_order(
                                    Answer_from(h.answer[1], h.answer[2]), ord)),
                      ord, checks)

Solo(frames, n, ord, checks) ==
    SoloRun(<<0, 0, 0, 0>>, TlvIterator_process(Flatten(frames)), n, <<>>, ord, checks)

\* C5: with several sessions running at once, in every interleaving, the
\* responses a session has emitted are the ones it would emit alone on the
\* requests it has received, and its accumulator is the one it would have
\* alone: no request of another connection changes it.
C5_SessionsIndependent ==
    \A s \in DOMAIN conn :
      LET alone == Solo(received[s], Len(handled[s]), order, overflow_checks) IN
      /\ Len(outbound[s]) <= Len(alone.out)
      /\ \A k \in 1..Len(outbound[s]) :
           /\ outbound[s][k] = SubSeq(alone.out[k], 1, Len(outbound[s][k]))
           /\ k < Len(outbound[s]) => outbound[s][k] = alone.out[k]
      /\ acc[s] = alone.acc
      /\ (conn[s] = "open" /\ pc[s] = "read") =>
           /\ Len(handled[s]) = Len(received[s])
           /\ outbound[s] = alone.out

\* C5 witness: the first session has evaluated a request and written no
\* byte of its response yet, while the second one, having read afterwards,
\* has written the whole response to two requests and returned; their
\* accumulators differ.
C5_Witness ==
    /\ conn[1] = "open" /\ pc[1] = "write"
    /\ outbound[1] = <<>> /\ Len(handled[1]) = 1
    /\ conn[2] = "closed" /\ pc[2] = "read"
    /\ Len(outbound[2]) = 2 /\ handled[2][2].written
    /\ outbound[2][1] # handled[1][1].bytes
    /\ acc[1] # acc[2]
    /\ acc[1] # <<0, 0, 0, 0>> /\ acc[2] # <<0, 0, 0, 0>>

-----------------------------------------------------------------------------
(* The answer codec applied to bounded inputs *)

\* the longest diagnostic text given to Answer::from
MaxMessage == 258

\* the most sub-frames put in the payload of a received container frame
MaxNested == 3

\* 0, 1, -1, i64::MAX, i64::MIN, 0x0102030405060708 and 20!
I64Samples ==
    { <<0, 0, 0, 0>>, <<0, 0, 0, 1>>, <<65535, 65535, 65535, 65535>>,
      <<32767, 65535, 65535, 65535>>, <<32768, 0, 0, 0>>,
      <<258, 772, 1286, 1800>>, <<8643, 26492, 33460, 0>> }

\* a text of n ASCII letters
Letters(n) == [i \in 1..n |-> 97 + (i % 26)]

\* diagnostic texts: every length up to MaxMessage, the texts the server
\* sends, and a text with two-byte characters ("×÷")
Messages ==
    { Letters(n) : n \in 0..MaxMessage }
    \cup { OperationError_text[e] : e \in DOMAIN OperationError_text }
    \cup { <<195, 151, 195, 183>> }

\* the (i64, Option<String>) pairs given to Answer::from
AnswerInputs ==
    { <<a, m>> : a \in I64Samples, m \in {None} \cup { Some(t) : t \in Messages } }

\* sub-frames a received container payload is built from: two accumulators
\* (1 and 2), two diagnostics ("a" and "b"), an Add frame, a 7-byte
\* accumulator, an empty diagnostic, a diagnostic that is not UTF-8, an
\* unregistered frame, a lone tag byte
NestedItems ==
    { <<16, 8, 0, 0, 0, 0, 0, 0, 0, 1>>, <<16, 8, 0, 0, 0, 0, 0, 0, 0, 2>>,
      <<11, 1, 97>>, <<11, 1, 98>>, <<1, 2, 0, 0>>,
      <<16, 7, 0, 0, 0, 0, 0, 0, 1>>, <<11, 0>>, <<11, 1, 255>>,
      <<20, 0>>, <<16>> }

\* a whole frame with tag byte t around payload p
Framed(t, p) == <<t, Len(p)>> \o p

\* the buffers the client reads: container frames around every payload, and
\* the same payloads under an accumulator, a diagnostic and an Add tag
AnswerFrames ==
    { Framed(10, Flatten(items)) : items \in SeqsUpTo(NestedItems, MaxNested) }
    \cup { Framed(t, Flatten(items)) :
             t \in {1, 11, 16}, items \in SeqsUpTo(NestedItems, 1) }

\* Tlv::try_from(&buffer[..len])?.try_into()? of the client
Answer_decode(bytes, checks) ==
    LET t == Tlv_try_from(bytes, checks) IN
    IF IsOk(t) THEN Answer_try_from(t.val, checks) ELSE t

InitAns ==
    /\ overflow_checks \in BOOLEAN
    /\ order \in {"MessageFirst", "MessageLast"}
    /\ conn = NoSession /\ acc = NoSession /\ buffer = NoSession
    /\ index = NoSession /\ pc = NoSession /\ outbound = NoSession
    /\ received = NoSession /\ handled = NoSession
    /\ arg = Nil
    /\ wire = <<>>
    /\ ret = Nil
    /\ phase = "start"
    /\ iter = Nil
    /\ yielded = <<>>

\* Answer::from(answer).encode(order), as the server does before write_all
AnsEncode ==
    /\ phase = "start"
    /\ \E p \in AnswerInputs :
         LET e == Answer_encode_unwrap(Answer_from(p[1], p[2]), order) IN
         /\ arg' = [kind |-> "answer", answer |-> Answer_from(p[1], p[2])]
         /\ ret' = e
         /\ wire' = IF IsOk(e) THEN e.val ELSE <<>>
         /\ phase' = IF IsOk(e) THEN "encoded" ELSE "panicked"
    /\ UNCHANGED <<overflow_checks, sessionVars, iter, yielded>>

\* stream.read of the client: a buffer holding one frame
AnsReceive ==
    /\ phase = "start"
    /\ \E b \in AnswerFrames :
         /\ arg' = [kind |-> "bytes", bytes |-> b]
         /\ wire' = b
    /\ phase' = "received"
    /\ UNCHANGED <<overflow_checks, sessionVars, ret, iter, yielded>>

\* the client decoding the bytes into an Answer
AnsDecode ==
    /\ phase \in {"encoded", "received"}
    /\ ret' = Answer_decode(wire, overflow_checks)
    /\ phase' = "decoded"
    /\ UNCHANGED <<overflow_checks, sessionVars, arg, wire, iter, yielded>>

\* signed values written as 16-bit integers, and values on and around the
\* limb and sign boundaries of 64 bits
NumInputs ==
    { [n |-> Some(n), value |-> i64_from(n)] : n \in -300..300 }
    \cup { [n |-> None, value |-> v] :
             v \in [1..4 -> {0, 1, 255, 256, 32767, 32768, 65535}] }

\* frames of every registered tag with 0 to 10 payload bytes, and with the
\* two largest payloads a frame can hold
NumFrames ==
    { Tlv_new(t, Fill(n, seed)).val :
        t \in TlvType, n \in (0..10) \cup {254, 255}, seed \in {0, 100, 250} }

\* Numberi64(v).encode()
NumEncode ==
    /\ phase = "start"
    /\ \E i \in NumInputs :
         /\ arg' = [kind |-> "num", n |-> i.n, value |-> i.value]
         /\ wire' = Numberi64_encode(i.value)
    /\ phase' = "num_encoded"
    /\ UNCHANGED <<overflow_checks, sessionVars, ret, iter, yielded>>

\* a frame handed to Numberi64::try_from
NumReceive ==
    /\ phase = "start"
    /\ \E tlv \in NumFrames :
         /\ arg' = [kind |-> "tlv", tlv |-> tlv]
         /\ wire' = Tlv_encode(tlv)
    /\ phase' = "num_received"
    /\ UNCHANGED <<overflow_checks, sessionVars, ret, iter, yielded>>

\* Numberi64::try_from(tlv), the frame being the one received or, as in the
\* tests, the one Tlv::try_from reads from the encoded bytes
NumDecode ==
    /\ phase \in {"num_encoded", "num_received"}
    /\ LET t == IF arg.kind = "tlv" THEN Ok(arg.tlv)
                ELSE Tlv_try_from(wire, overflow_checks)
       IN  ret' = IF IsOk(t) THEN Numberi64_try_from(t.val) ELSE t
    /\ phase' = "num_decoded"
    /\ UNCHANGED <<overflow_checks, sessionVars, arg, wire, iter, yielded>>

NextAns == AnsEncode \/ AnsReceive \/ AnsDecode \/ NumEncode \/ NumReceive \/ NumDecode

SpecAns == InitAns /\ [][NextAns]_vars

-----------------------------------------------------------------------------
(* Claims about the answer codec, checked under SpecAns *)

\* C11: for every Response, its diagnostic absent or a non-empty text, and
\* for both orderings, decoding the container frame produced by encoding
\* the Response gives a Response with the same accumulator and the same
\* diagnostic.
C11_ResponseRoundTrip ==
    ( /\ phase = "decoded" /\ arg.kind = "answer"
      /\ arg.answer.message # Some(<<>>) )
    => /\ IsOk(ret)
       /\ ret.val.acc = arg.answer.acc
       /\ ret.val.message = arg.answer.message

\* f is the Accumulator sub-frame of a: tag 16, length 8, then eight bytes
\* that read, most significant first, as the four 16-bit limbs of a
IsAccumulatorSubFrame(f, a) ==
    /\ Len(f) = 10 /\ f[1] = 16 /\ f[2] = 8
    /\ \A i \in 3..10 : f[i] \in 0..255
    /\ \A k \in 1..4 : f[2 * k + 1] * 256 + f[2 * k + 2] = a[k]

\* f is the Diagnostic sub-frame of the text m: tag 11, its length, its bytes
IsDiagnosticSubFrame(f, m) ==
    /\ Len(f) = 2 + Len(m) /\ f[1] = 11 /\ f[2] = Len(m)
    /\ \A i \in 1..Len(m) : f[2 + i] = m[i]

\* w is one ResponseContainer frame whose payload is the sub-frames of the
\* answer in the order ord
IsResponseFrame(w, answer, ord) ==
    /\ Len(w) >= 2 /\ w[1] = 10 /\ w[2] = Len(w) - 2
    /\ LET p == SubSeq(w, 3, Len(w)) IN
       IF answer.message = None THEN IsAccumulatorSubFrame(p, answer.acc)
       ELSE LET n == 2 + Len(answer.message.val) IN
            /\ Len(p) = n + 10
            /\ IF ord = "MessageFirst"
               THEN /\ IsDiagnosticSubFrame(SubSeq(p, 1, n), answer.message.val)
                    /\ IsAccumulatorSubFrame(SubSeq(p, n + 1, n + 10), answer.acc)
               ELSE /\ IsAccumulatorSubFrame(SubSeq(p, 1, 10), answer.acc)
                    /\ IsDiagnosticSubFrame(SubSeq(p, 11, n + 10), answer.message.val)

\* C12 as stated: encoding a Response, whatever its diagnostic, produces one
\* ResponseContainer frame (tag 10) whose payload is the Accumulator sub-frame
\* (tag 16, length 8, big-endian) and, when a diagnostic is present, the
\* Diagnostic sub-frame (tag 11), the diagnostic first under MessageFirst and
\* last under MessageLast.
C12_EncodeLayout ==
    (phase \in {"encoded", "panicked"} /\ arg.kind = "answer") =>
      /\ IsOk(ret)
      /\ IsResponseFrame(wire, arg.answer, order)

\* What holds of C12: for a Response whose diagnostic is absent or has at
\* most 243 bytes, encode produces one ResponseContainer frame with the
\* sub-frames as C12 says; with a longer diagnostic the unwrap() in encode
\* panics and no frame is produced.
C12_EncodeLayoutWithinFrame ==
    (phase \in {"encoded", "panicked"} /\ arg.kind = "answer") =>
      IF arg.answer.message = None \/ Len(arg.answer.message.val) <= 243
      THEN /\ IsOk(ret) /\ wire = ret.val
           /\ IsResponseFrame(wire, arg.answer, order)
      ELSE IsPanic(ret) /\ wire = <<>>

\* the case of C12 at its edge: a Response with the accumulator 0x0102030405060708 and the
\* longest diagnostic that fits was encoded with the message first, giving a
\* frame of 257 bytes.
C12_Witness ==
    /\ phase = "encoded" /\ arg.kind = "answer"
    /\ order = "MessageFirst"
    /\ arg.answer.acc = <<258, 772, 1286, 1800>>
    /\ arg.answer.message # None /\ Len(arg.answer.message.val) = 243
    /\ Len(wire) = 257 /\ wire[3] = 11
    /\ SubSeq(wire, 248, 257) = <<16, 8, 1, 2, 3, 4, 5, 6, 7, 8>>

\* the sub-frames the sequential reader finds in payload p from the 0-based
\* offset o on, as [tag byte, data], up to the first place where no whole
\* registered frame starts
RECURSIVE NestedFrames(_, _)
NestedFrames(p, o) ==
    IF Len(p) < o + 2 THEN <<>>
    ELSE IF Len(p) < o + 2 + p[o + 2] \/ p[o + 1] \notin RegisteredTags THEN <<>>
    ELSE <<[tag |-> p[o + 1], data |-> SubSeq(p, o + 3, o + 2 + p[o + 2])]>>
         \o NestedFrames(p, o + 2 + p[o + 2])

\* the first of the frames fs with tag byte t, if any
FirstWithTag(fs, t) ==
    IF \E k \in 1..Len(fs) : fs[k].tag = t
    THEN Some(fs[CHOOSE k \in 1..Len(fs) :
                   fs[k].tag = t /\ \A j \in 1..(k - 1) : fs[j].tag # t])
    ELSE None

\* C13: decoding a frame fails when its tag is not ResponseContainer, its
\* length is 0 or its payload holds no Accumulator sub-frame; otherwise,
\* the first Accumulator sub-frame found having 8 bytes and the first
\* Diagnostic sub-frame found, if any, being non-empty UTF-8, it succeeds
\* with the value of that first Accumulator sub-frame as accumulator and
\* the text of that first Diagnostic sub-frame as diagnostic (none when the
\* payload holds no Diagnostic sub-frame), whatever other sub-frames the
\* payload holds.
C13_DecodeTakesFirst ==
    (phase = "decoded" /\ arg.kind = "bytes") =>
      LET b == arg.bytes
          fs == NestedFrames(SubSeq(b, 3, Len(b)), 0)
          a == FirstWithTag(fs, 16)
          d == FirstWithTag(fs, 11)
      IN  IF b[1] # 10 \/ b[2] = 0 \/ a = None THEN IsErr(ret)
          ELSE ( /\ Len(a.val.data) = 8
                 /\ d # None => (d.val.data # <<>> /\ IsOk(str_from_utf8(d.val.data))) )
               => /\ IsOk(ret)
                  /\ \A k \in 1..4 :
                       ret.val.acc[k] = a.val.data[2 * k - 1] * 256 + a.val.data[2 * k]
                  /\ ret.val.message = IF d = None THEN None ELSE Some(d.val.data)

\* the eight big-endian two's-complement bytes of a signed 16-bit integer n
\* taken as a 64-bit value
SignExtendedBytes(n) ==
    IF n >= 0 THEN <<0, 0, 0, 0, 0, 0, n \div 256, n % 256>>
    ELSE <<255, 255, 255, 255, 255, 255, (n + 65536) \div 256, (n + 65536) % 256>>

\* C14: encoding v gives the 10 bytes tag 16, length 8, then v as 8
\* big-endian two's-complement bytes; decoding those bytes gives v back;
\* decoding a frame with tag 16 and length 8 gives the value its payload
\* reads as, and encoding that value gives the frame back; decoding a frame
\* with any other tag or any other length fails.
C14_AccumulatorCodecBijection ==
    /\ (phase \in {"num_encoded", "num_decoded"} /\ arg.kind = "num") =>
         /\ IsAccumulatorSubFrame(wire, arg.value)
         /\ arg.n # None => SubSeq(wire, 3, 10) = SignExtendedBytes(arg.n.val)
    /\ (phase = "num_decoded" /\ arg.kind = "num") =>
         (IsOk(ret) /\ ret.val = arg.value)
    /\ (phase = "num_decoded" /\ arg.kind = "tlv") =>
         IF arg.tlv.tag = "Numi64" /\ arg.tlv.length = 8
         THEN /\ IsOk(ret)
              /\ IsAccumulatorSubFrame(wire, ret.val)
              /\ Numberi64_encode(ret.val) = wire
         ELSE IsErr(ret)

\* C14 witness: -1 was encoded to eight bytes 255 and decoded back, as in
\* the tests parse_answer_minus1 and encode_answer.
C14_Witness ==
    /\ phase = "num_decoded" /\ arg.kind = "num"
    /\ arg.n = Some(-1)
    /\ wire = <<16, 8, 255, 255, 255, 255, 255, 255, 255, 255>>
    /\ ret = Ok(<<65535, 65535, 65535, 65535>>)

-----------------------------------------------------------------------------
(* Evaluation and frame decoding of operations *)

\* operand bytes on and around the sign boundary
ByteSamples == {0, 1, 2, 126, 127, 128, 129, 254, 255}

\* payloads of the frames handed to Operation::try_from: none, every single
\* byte, pairs of sampled bytes, pairs that put every byte in both places,
\* three bytes, and the two largest payloads
OperationPayloads ==
    { <<>>, <<1, 2, 3>>, Fill(254, 0), Fill(255, 0) }
    \cup { <<x>> : x \in 0..255 }
    \cup [1..2 -> ByteSamples]
    \cup { <<x, 255 - x>> : x \in 0..255 }

\* frames of every registered tag
OperationFrames ==
    { Tlv_new(t, d).val : t \in TlvType, d \in OperationPayloads }

InitEval == InitOp

\* operation.reduce()
OpReduce ==
    /\ phase = "start"
    /\ \E o \in Operations :
         /\ arg' = o
         /\ ret' = Operation_reduce(o)
    /\ phase' = "reduced"
    /\ UNCHANGED <<overflow_checks, sessionVars, wire, iter, yielded>>

\* Operation::try_from(tlv)
OpFromTlv ==
    /\ phase = "start"
    /\ \E tlv \in OperationFrames :
         /\ arg' = tlv
         /\ wire' = Tlv_encode(tlv)
         /\ ret' = Operation_try_from(tlv)
    /\ phase' = "from_tlv"
    /\ UNCHANGED <<overflow_checks, sessionVars, iter, yielded>>

NextEval == OpReduce \/ OpFromTlv

SpecEval == InitEval /\ [][NextEval]_vars

-----------------------------------------------------------------------------
(* Claims about evaluation and decoding, checked under SpecEval *)

\* x is the 64-bit form of an integer of at most 16 bits
IsSmallI64(x) ==
    \/ x[1] = 0 /\ x[2] = 0 /\ x[3] = 0 /\ x[4] < 32768
    \/ x[1] = 65535 /\ x[2] = 65535 /\ x[3] = 65535 /\ x[4] >= 32768

\* the integer a small 64-bit value stands for
SmallI64Value(x) == IF x[1] = 0 THEN x[4] ELSE x[4] - 65536

\* C15: for all operands a and b in -128..127, Add(a,b), Sub(a,b) and
\* Mul(a,b) evaluate to the exact value a+b, a-b and a*b; Overflow is
\* reported only for a value that cannot be represented, and no wrapped or
\* truncated value is returned.
C15_AddSubMulExact ==
    (phase = "reduced" /\ arg.op \in {"Sum", "Sub", "Mul"}) =>
      LET exact == CASE arg.op = "Sum" -> arg.a + arg.b
                     [] arg.op = "Sub" -> arg.a - arg.b
                     [] arg.op = "Mul" -> arg.a * arg.b
      IN  IF -32768 <= exact /\ exact <= 32767
          THEN /\ IsOk(ret) /\ IsSmallI64(ret.val)
               /\ SmallI64Value(ret.val) = exact
          ELSE ret = Err("OverFlow")

\* C15 witness: Mul(-128,-128) was evaluated to 16384, a value outside the
\* range of the operands.
C15_Witness ==
    /\ phase = "reduced"
    /\ arg = [op |-> "Mul", a |-> -128, b |-> -128]
    /\ ret = Ok(<<0, 0, 0, 16384>>)

\* C16: for all operands a and b in -128..127, Div(a,b) and Mod(a,b) report
\* WrongDomain exactly when b is 0 or (a,b) is (-128,-1); for every other
\* pair Div returns the quotient truncated toward zero and Mod the remainder
\* with the sign of a: a = q*b + r with |r| < |b| and r zero or of a's sign.
C16_DivModDomain ==
    (phase = "reduced" /\ arg.op \in {"Div", "Rem"}) =>
      IF arg.b = 0 \/ (arg.a = -128 /\ arg.b = -1)
      THEN ret = Err("WrongDomain")
      ELSE /\ IsOk(ret) /\ IsSmallI64(ret.val)
           /\ LET v == SmallI64Value(ret.val)
                  IsRemainder(r) == /\ (IF r < 0 THEN -r ELSE r)
                                         < (IF arg.b < 0 THEN -arg.b ELSE arg.b)
                                    /\ (r = 0 \/ (r < 0) = (arg.a < 0))
              IN  IF arg.op = "Div"
                  THEN v \in -128..127 /\ IsRemainder(arg.a - v * arg.b)
                  ELSE /\ IsRemainder(v)
                       /\ \E q \in -128..127 : arg.a = q * arg.b + v

\* C16 witness: Mod(-7,2) was evaluated to -1.
C16_Witness ==
    /\ phase = "reduced"
    /\ arg = [op |-> "Rem", a |-> -7, b |-> 2]
    /\ ret = Ok(<<65535, 65535, 65535, 65535>>)

\* 0!, 1!, ..., 20! as 64-bit values
FactorialTable ==
    << <<0, 0, 0, 1>>, <<0, 0, 0, 1>>, <<0, 0, 0, 2>>,
       <<0, 0, 0, 6>>, <<0, 0, 0, 24>>, <<0, 0, 0, 120>>,
       <<0, 0, 0, 720>>, <<0, 0, 0, 5040>>, <<0, 0, 0, 40320>>,
       <<0, 0, 5, 35200>>, <<0, 0, 55, 24320>>, <<0, 0, 609, 5376>>,
       <<0, 0, 7308, 64512>>, <<0, 1, 29480, 52224>>, <<0, 20, 19515, 10240>>,
       <<0, 304, 30583, 22528>>, <<0, 4871, 30581, 32768>>, <<1, 17278, 61133, 32768>>,
       <<22, 48876, 51827, 0>>, <<432, 11155, 1673, 0>>, <<8643, 26492, 33460, 0>> >>

\* C17: Factorial(n) reports WrongDomain for every n < 0, returns 1 for
\* n = 0 and the product 1*2*...*n for n from 1 to 20, and reports Overflow
\* for every n from 21 to 127; it never returns a wrapped value.
C17_Factorial ==
    (phase = "reduced" /\ arg.op = "Fact") =>
      IF arg.a < 0 THEN ret = Err("WrongDomain")
      ELSE IF arg.a <= 20 THEN ret = Ok(FactorialTable[arg.a + 1])
      ELSE ret = Err("OverFlow")

\* C17 witness: Factorial(20) was evaluated to 2432902008176640000
\* (0x21C3677C82B40000), the last product that fits.
C17_Witness ==
    /\ phase = "reduced"
    /\ arg = [op |-> "Fact", a |-> 20]
    /\ ret = Ok(<<8643, 26492, 33460, 0>>)

\* C18: decoding a frame into an Operation succeeds exactly when the tag is
\* one of 1 to 5 with payload length 2 or the tag is 6 with payload length 1,
\* and then the operation has that tag's operator and each payload byte read
\* as a signed two's-complement 8-bit operand, in payload order; every other
\* frame of a registered tag fails with the malformed-operation error.
C18_OperationDecode ==
    phase = "from_tlv" =>
      LET t == wire[1]
          n == wire[2]
          signed(b) == b - 256 * (b \div 128)
          operator == <<"Sum", "Sub", "Mul", "Div", "Rem", "Fact">>
      IN  IF t \in 1..5 /\ n = 2
          THEN ret = Ok([op |-> operator[t], a |-> signed(wire[3]), b |-> signed(wire[4])])
          ELSE IF t = 6 /\ n = 1
          THEN ret = Ok([op |-> "Fact", a |-> signed(wire[3])])
          ELSE ret = Err("Generic")

\* C18 witness: the frame 1, 2, 127, 255 was decoded to Add(127,-1), as in
\* the test parse_operation_sum.
C18_Witness ==
    /\ phase = "from_tlv"
    /\ wire = <<1, 2, 127, 255>>
    /\ ret = Ok([op |-> "Sum", a |-> 127, b |-> -1])

-----------------------------------------------------------------------------
(* The text parser applied to bounded texts *)

\* the longest text built freely from TextChars
MaxText == 4

TextChars == {" ", "-", "1", "9", "+", "!", "U+00F7", "a"}

\* for every operator: one operand, one operand with spaces, two operands,
\* two negative operands, an operand out of range on either side
OperatorSweep ==
    UNION { { <<"5", op>>, <<" ", "5", " ", op, " ">>, <<"5", op, "3">>,
              <<"5", " ", op, " ", "3">>, <<"-", "5", op, "-", "3">>,
              <<"1", "0", op, "3">>, <<"5", op, "3", "0", "0">>,
              <<"3", "0", "0", op>>, <<"0", "0", "7", op, "-", "0">> } :
            op \in OperatorChars \cup {"^", "a"} }

\* texts with white space other than U+0020 (tab, no-break space,
\* ideographic space) and with digits of another script (Arabic-Indic three,
\* fullwidth five)
UnicodeTexts ==
    { <<"1", "U+0009", "+", "2">>, <<"U+0009", "5", "!">>, <<"5", "!", "U+0009">>,
      <<"U+00A0", "5", "U+3000", "/", "U+0009", "U+0009", "-", "2", "U+000D">>,
      <<"U+0663", "+", "1">>, <<"1", "+", "U+0663">>, <<"-", "U+FF15", "!">>,
      <<"1", "U+0663", "*", "2">>, <<"5", "U+0009">>, <<"U+0663", "^", "1">>,
      <<"5", "U+0009", "+">>, <<"5", "U+0009", "^", "U+00A0", "3">> }

Texts == SeqsUpTo(TextChars, MaxText) \cup OperatorSweep \cup UnicodeTexts

InitText == InitOp

\* iline.parse::<Operation>() of the client
TextParse ==
    /\ phase = "start"
    /\ \E t \in Texts :
         /\ arg' = t
         /\ ret' = Operation_from_str(t)
    /\ phase' = "parsed"
    /\ UNCHANGED <<overflow_checks, sessionVars, wire, iter, yielded>>

\* stream.write_all(&operation.encode()) of the client
TextEncode ==
    /\ phase = "parsed" /\ IsOk(ret)
    /\ wire' = Operation_encode(ret.val)
    /\ phase' = "sent"
    /\ UNCHANGED <<overflow_checks, sessionVars, arg, ret, iter, yielded>>

NextText == TextParse \/ TextEncode

SpecText == InitText /\ [][NextText]_vars

-----------------------------------------------------------------------------
(* Claims about the text parser, checked under SpecText *)

\* the text is a first operand within -128..127, an operator and, when
\* with_b, a second operand within -128..127, with any spaces around them
OperandCountIs(t, with_b) ==
    LET c == Regex_captures(t) IN
    /\ c # None
    /\ IsOk(i8_parse(c.val[1].val))
    /\ IF with_b THEN c.val[3] # None /\ IsOk(i8_parse(c.val[3].val))
       ELSE c.val[3] = None

\* the operator of a text the grammar matches
OperatorOf(t) == Regex_captures(t).val[2].val

\* C20: parsing a text whose operand count does not match its operator, a
\* binary operator (+ - * × x / ÷ %) without a second operand or the
\* factorial operator ! with a second operand, fails with the generic parse
\* error.
C20_OperandCountMismatch ==
    phase = "parsed" =>
      /\ (OperandCountIs(arg, FALSE) /\ OperatorOf(arg) # "!") => ret = Err("Parse")
      /\ (OperandCountIs(arg, TRUE) /\ OperatorOf(arg) = "!") => ret = Err("Parse")


\* the text is an operand within -128..127, then one symbol that is neither
\* an operator of the grammar nor a digit nor a space, then nothing or a
\* second operand within -128..127, with any spaces around them
UnknownOperatorIn(t) ==
    LET a1 == SkipWhile(t, 1, Spaces)
        a2 == NumberEnd(t, a1)
        o1 == SkipWhile(t, a2, Spaces)
        b1 == SkipWhile(t, o1 + 1, Spaces)
        b2 == NumberEnd(t, b1)
        z1 == SkipWhile(t, IF b2 = 0 THEN b1 ELSE b2, Spaces)
    IN  /\ a2 # 0
        /\ IsOk(i8_parse(SubSeq(t, a1, a2 - 1)))
        /\ o1 <= Len(t)
        /\ t[o1] \notin (OperatorChars \cup Digits \cup Spaces)
        /\ b2 # 0 => IsOk(i8_parse(SubSeq(t, b1, b2 - 1)))
        /\ z1 > Len(t)

\* the symbol at the operator position of such a text
UnknownOperatorOf(t) == t[SkipWhile(t, NumberEnd(t, SkipWhile(t, 1, Spaces)), Spaces)]

\* C21: parsing a text whose operator position holds a symbol outside
\* + - * × x / ÷ % ! fails with the unsupported-operation error, and the
\* error carries that symbol.
C21_UnknownOperatorSymbol ==
    (phase = "parsed" /\ UnknownOperatorIn(arg)) =>
      ret = [kind |-> "Err", err |-> "UnsupportedOperation",
             op |-> UnknownOperatorOf(arg)]

\* what the parser does with such a text: the generic parse error
C21_UnknownOperatorIsParseError ==
    (phase = "parsed" /\ UnknownOperatorIn(arg)) => ret = Err("Parse")

-----------------------------------------------------------------------------
(* One connection fed buffers that do not end at a frame boundary *)

\* the reads of one connection
MaxSegments == 2

\* the whole request frames in front of a buffer's tail
MaxSegmentFrames == 2

\* Sum(2,3) and Div(5,0)
SegmentFrames == { <<1, 2, 2, 3>>, <<4, 2, 5, 0>> }

\* frames cut short: a lone tag byte, payloads shorter than declared, for
\* small and for the largest declared lengths
TruncatedTails ==
    { <<1>>, <<20>>, <<1, 2, 7>>, <<2, 5, 0>>, <<1, 255>>, <<6, 254, 1>> }

\* whole frames whose tag is not registered
UnregisteredFrames == { <<20, 0>>, <<9, 1, 7>>, RawFrame(20, 254, 254) }

\* what one stream.read may return: whole request frames and then nothing,
\* a truncated frame, or an unregistered frame followed by request frames
SegmentBuffers ==
    ( { Flatten(p) \o t : p \in SeqsUpTo(SegmentFrames, MaxSegmentFrames),
                          t \in TruncatedTails \cup {<<>>} }
      \cup { Flatten(p) \o u \o Flatten(q) :
               p \in SeqsUpTo(SegmentFrames, 1), u \in UnregisteredFrames,
               q \in SeqsUpTo(SegmentFrames, MaxSegmentFrames) \ {<<>>} } )
    \ {<<>>}

\* the session of tcpmtser with `received` holding one entry per read
NextSeg ==
    \E s \in {1} :
      \/ Accept(s)
      \/ /\ Len(received[s]) < MaxSegments
         /\ \E b \in SegmentBuffers : Read(s, <<b>>)
      \/ ReadEnd(s)
      \/ Iterate(s)
      \/ \E n \in NextWriteSizes(s) : Write(s, n)
      \/ WriteFail(s)

SpecSeg == Init /\ [][NextSeg]_vars

-----------------------------------------------------------------------------
(* Claims about buffers and frame boundaries, checked under SpecSeg *)

\* the whole frames with a registered tag at the front of the bytes b
RECURSIVE WholeFramesOf(_)
WholeFramesOf(b) ==
    IF Len(b) >= 2 /\ Len(b) >= 2 + b[2] /\ b[1] \in RegisteredTags
    THEN <<SubSeq(b, 1, 2 + b[2])>> \o WholeFramesOf(SubSeq(b, 3 + b[2], Len(b)))
    ELSE <<>>

\* the bytes of b after those frames
Leftover(b) == SubSeq(b, Len(Flatten(WholeFramesOf(b))) + 1, Len(b))

\* a lone tag byte, or a header that declares more payload than follows
IsTruncated(f) == Len(f) = 1 \/ (Len(f) >= 2 /\ Len(f) < 2 + f[2])

\* b is whole request frames followed by nothing or by a truncated frame
EndsAtOrInsideFrame(b) ==
    /\ \A k \in 1..Len(WholeFramesOf(b)) : WholeRequestFrame(WholeFramesOf(b)[k])
    /\ Leftover(b) = <<>> \/ IsTruncated(Leftover(b))

\* the frames the session has to answer when every read is taken on its own
FramesPerRead(bs) == Flatten([k \in 1..Len(bs) |-> WholeFramesOf(bs[k])])

\* C22: when the buffers read end with a truncated frame, every whole frame
\* before it is processed and answered, nothing is emitted for the
\* truncated frame, no error arises from it, and its bytes are not joined
\* with the bytes of the next read: the frames handled are the whole frames
\* of each read taken on its own.
C22_TruncatedTailDropped ==
    \A s \in DOMAIN received :
      (\A k \in 1..Len(received[s]) : EndsAtOrInsideFrame(received[s][k])) =>
        /\ conn[s] # "panicked"
        /\ (conn[s] = "open" /\ pc[s] = "read") =>
             /\ [k \in 1..Len(handled[s]) |-> Tlv_encode(handled[s][k].tlv)]
                  = FramesPerRead(received[s])
             /\ Len(outbound[s]) = Len(handled[s])

\* the same for truncated frames that declare at most 253 bytes of payload
C22_ShortTruncatedTailDropped ==
    \A s \in DOMAIN received :
      (\A k \in 1..Len(received[s]) :
         /\ EndsAtOrInsideFrame(received[s][k])
         /\ Len(Leftover(received[s][k])) >= 2 => Leftover(received[s][k])[2] < 254) =>
        /\ conn[s] # "panicked"
        /\ (conn[s] = "open" /\ pc[s] = "read") =>
             /\ [k \in 1..Len(handled[s]) |-> Tlv_encode(handled[s][k].tlv)]
                  = FramesPerRead(received[s])
             /\ Len(outbound[s]) = Len(handled[s])


\* b is whole request frames, then a whole frame with an unregistered tag,
\* then one or more whole request frames up to the end of b
HasUnregisteredFrame(b) ==
    LET l == Leftover(b)
        after == SubSeq(l, 3 + l[2], Len(l))
    IN  /\ \A k \in 1..Len(WholeFramesOf(b)) : WholeRequestFrame(WholeFramesOf(b)[k])
        /\ Len(l) >= 2 /\ Len(l) >= 2 + l[2] /\ l[1] \notin RegisteredTags
        /\ after # <<>> /\ Leftover(after) = <<>>
        /\ \A k \in 1..Len(WholeFramesOf(after)) :
             WholeRequestFrame(WholeFramesOf(after)[k])

\* b is whole request frames up to its end
OnlyRequestFrames(b) ==
    /\ Leftover(b) = <<>>
    /\ \A k \in 1..Len(WholeFramesOf(b)) : WholeRequestFrame(WholeFramesOf(b)[k])

\* the accumulator after the requests handled so far
LastAccumulator(hs) == IF hs = <<>> THEN I64_ZERO ELSE hs[Len(hs)].after

\* C23: when a buffer holds a frame with an unregistered tag followed by
\* whole request frames, the session emits nothing for that frame and for
\* the frames after it in the buffer, the accumulator is not changed by
\* them, and the session stays open and answers the requests of the next
\* buffer: the frames handled are those in front of the unregistered frame
\* of each read.
C23_UnregisteredFrameEndsBuffer ==
    \A s \in DOMAIN received :
      (\A k \in 1..Len(received[s]) :
         HasUnregisteredFrame(received[s][k]) \/ OnlyRequestFrames(received[s][k])) =>
        /\ conn[s] # "panicked"
        /\ (conn[s] = "open" /\ pc[s] = "read") =>
             /\ [k \in 1..Len(handled[s]) |-> Tlv_encode(handled[s][k].tlv)]
                  = FramesPerRead(received[s])
             /\ Len(outbound[s]) = Len(handled[s])
             /\ acc[s] = LastAccumulator(handled[s])

\* the same for unregistered frames that declare at most 253 bytes of payload
C23_ShortUnregisteredFrameEndsBuffer ==
    \A s \in DOMAIN received :
      (\A k \in 1..Len(received[s]) :
         \/ /\ HasUnregisteredFrame(received[s][k])
            /\ Leftover(received[s][k])[2] < 254
         \/ OnlyRequestFrames(received[s][k])) =>
        /\ conn[s] # "panicked"
        /\ (conn[s] = "open" /\ pc[s] = "read") =>
             /\ [k \in 1..Len(handled[s]) |-> Tlv_encode(handled[s][k].tlv)]
                  = FramesPerRead(received[s])
             /\ Len(outbound[s]) = Len(handled[s])
             /\ acc[s] = LastAccumulator(handled[s])

-----------------------------------------------------------------------------
(* The responses of a connection read by the client, checked under Spec *)

\* C25: every response the session gives to write_all, after any sequence
\* of requests, is accepted by the client's decoder and decodes to the
\* accumulator the session held when it emitted the response, with a
\* diagnostic exactly when the request failed, the text of its error; once
\* write_all has returned these are the bytes the stream carries.
C25_ResponsesDecodeAtClient ==
    \A s \in DOMAIN outbound :
      \A k \in 1..Len(handled[s]) :
        LET h == handled[s][k]
            d == Answer_decode(h.bytes, overflow_checks)
        IN  /\ h.written => outbound[s][k] = h.bytes
            /\ IsOk(d)
            /\ d.val.acc = h.after
            /\ IsSome(d.val.message) <=> IsErr(h.res)
            /\ IsErr(h.res) => d.val.message = Some(OperationError_to_string(h.res.err))

\* C25 witness: with the accumulator after the message or before it, a
\* success that left a negative accumulator, a failed evaluation and a
\* malformed operation frame have been answered.
C25_Witness ==
    /\ Len(outbound[1]) = 3 /\ handled[1][3].written
    /\ IsOk(handled[1][1].res) /\ i64_is_negative(handled[1][1].after)
    /\ handled[1][2].res = Err("WrongDomain")
    /\ handled[1][3].res = Err("Generic")
    /\ Answer_decode(outbound[1][3], overflow_checks).val.acc = handled[1][1].after

-----------------------------------------------------------------------------
(* bin/tcpmtcli.rs and one connection of bin/tcpmtser.rs over a stream.  The
   client's position in its loop is phase, arg its current line, ret its
   last parse or decode result, wire the requests it has written and yielded
   what it has read; wire[k] is what the stream carries of the k-th
   request.  The bytes in flight to either side are those the other side's
   write() calls have put on the stream and that have not been read yet: a
   read of the session may end inside a request, a read of the client
   inside a response. *)

\* the requests the client writes on one connection
MaxLockRequests == 2

\* lines typed by the user: 1!, 10*3, 5/0, -128 - 127, 5 +, 5^3
LockLines ==
    { <<"1", "!">>, <<"1", "0", "*", "3">>, <<"5", "/", "0">>,
      <<"-", "1", "2", "8", " ", "-", " ", "1", "2", "7">>,
      <<"5", " ", "+">>, <<"5", "^", "3">> }

\* the bytes the client has taken from the stream
Consumed == IF yielded = <<>> THEN 0 ELSE yielded[Len(yielded)].upto

\* the bytes written by the client that the session has not read yet
RequestsInFlight ==
    SubSeq(Flatten(wire), Len(Flatten(received[1])) + 1, Len(Flatten(wire)))

\* the bytes of the request being written that a write() of the client has
\* taken: the client writes its k-th request after its (k-1)-th read
CliSent == IF Len(wire) > Len(yielded) THEN Len(wire[Len(wire)]) ELSE 0

\* the bytes written by the session that the client has not read yet
ResponsesInFlight ==
    SubSeq(Flatten(outbound[1]), Consumed + 1, Len(Flatten(outbound[1])))

InitLock == InitSessions({1})

\* a line is read and parsed: an operation goes on to be written, anything
\* else is reported and the next line is awaited
CliParse ==
    /\ phase = "start"
    /\ Len(wire) < MaxLockRequests
    /\ \E t \in LockLines :
         /\ arg' = [kind |-> "line", text |-> t]
         /\ ret' = Operation_from_str(t)
    /\ phase' = IF IsOk(ret') THEN "write" ELSE "start"
    /\ UNCHANGED <<overflow_checks, sessionVars, wire, iter, yielded>>

\* QUIT or the end of stdin: the loop ends and the stream is dropped
CliQuit ==
    /\ phase = "start"
    /\ phase' = "quit"
    /\ UNCHANGED <<overflow_checks, sessionVars, arg, wire, ret, iter, yielded>>

\* one write() of the loop inside stream.write_all(&operation.encode()): it
\* takes the first n of the bytes left; when nothing is left write_all
\* returns Ok and the client goes on to read
CliWrite ==
    /\ phase = "write"
    /\ \E req \in {Operation_encode(ret.val)} :
         \E n \in 1..(Len(req) - CliSent) :
           /\ wire' = IF CliSent = 0 THEN Append(wire, SubSeq(req, 1, n))
                      ELSE [wire EXCEPT ![Len(wire)] =
                              @ \o SubSeq(req, CliSent + 1, CliSent + n)]
           /\ phase' = IF CliSent + n = Len(req) THEN "read" ELSE "write"
    /\ UNCHANGED <<overflow_checks, sessionVars, arg, ret, iter, yielded>>

\* a write() of the client fails: write_all returns the error, `?` ends
\* main and the stream is dropped
CliWriteFail ==
    /\ phase = "write"
    /\ phase' = "failed"
    /\ UNCHANGED <<overflow_checks, sessionVars, arg, wire, ret, iter, yielded>>

\* stream.read(&mut buffer) and the decoding of what it returned: the read
\* blocks while nothing is in flight and the session has the connection
\* open, returns every byte in flight otherwise, and no byte once the
\* session is gone; a decoding failure ends the client
CliRead ==
    /\ phase = "read"
    /\ \/ /\ ResponsesInFlight # <<>>
          /\ \E d \in {Answer_decode(ResponsesInFlight, overflow_checks)} :
               /\ ret' = d
               /\ yielded' = Append(yielded, [bytes |-> ResponsesInFlight,
                                              upto |-> Len(Flatten(outbound[1])),
                                              answer |-> d])
               /\ phase' = IF IsOk(d) THEN "start" ELSE "failed"
       \/ /\ ResponsesInFlight = <<>>
          /\ conn[1] \in {"closed", "panicked"}
          /\ ret' = Answer_decode(<<>>, overflow_checks)
          /\ phase' = "failed"
          /\ UNCHANGED yielded
    /\ UNCHANGED <<overflow_checks, sessionVars, arg, wire, iter>>

\* the session's read returns the bytes in flight
SrvRead == RequestsInFlight # <<>> /\ Read(1, <<RequestsInFlight>>)

\* the session's read returns no byte once the client has dropped the stream
SrvReadEnd == phase \in {"quit", "failed"} /\ RequestsInFlight = <<>> /\ ReadEnd(1)

\* one turn of the session's for loop up to write_all
SrvIterate == Iterate(1)

\* one write() of the session
SrvWrite == \E n \in NextWriteSizes(1) : Write(1, n)

\* a write() of the session fails once the client has dropped the stream
SrvWriteFail == phase \in {"quit", "failed"} /\ WriteFail(1)

NextLock ==
    \/ CliParse \/ CliQuit \/ CliWrite \/ CliWriteFail \/ CliRead
    \/ Accept(1) \/ SrvRead \/ SrvReadEnd \/ SrvIterate \/ SrvWrite \/ SrvWriteFail

\* both programs keep running: the listener accepts, the session's thread
\* and the client's blocking calls are scheduled whenever they can proceed.
\* The user is free to stop typing.
SpecLock ==
    /\ InitLock /\ [][NextLock]_vars
    /\ WF_vars(Accept(1)) /\ WF_vars(SrvRead) /\ WF_vars(SrvIterate)
    /\ WF_vars(SrvWrite) /\ WF_vars(CliWrite) /\ WF_vars(CliRead)

-----------------------------------------------------------------------------
(* Claims about the client and the session together, checked under SpecLock *)

\* the offsets of the session's byte stream at which a response ends
AnswerEnds ==
    { Len(Flatten([j \in 1..m |-> handled[1][j].bytes])) : m \in 0..Len(handled[1]) }

\* the bytes of the k-th request: those on the stream, or all of them
\* while its write_all is under way
RequestBytes(k) ==
    IF k = Len(wire) /\ phase = "write" /\ CliSent > 0
    THEN Operation_encode(ret.val) ELSE wire[k]

\* the offsets of the client's byte stream at which a request ends
RequestEnds ==
    { Len(Flatten([j \in 1..m |-> RequestBytes(j)])) : m \in 0..Len(wire) }

\* the stream has delivered each frame whole: no read of the session has
\* ended inside a request and no read of the client inside a response
DeliveredWhole ==
    /\ \A k \in 1..Len(received[1]) :
         Len(Flatten(SubSeq(received[1], 1, k))) \in RequestEnds
    /\ \A k \in 1..Len(yielded) : yielded[k].upto \in AnswerEnds

\* C26: the client and the session run in lock-step.  The client has at
\* most one request outstanding; while the stream delivers each frame
\* whole, each thing the client reads is exactly one response, the k-th
\* read being the session's response to the k-th request written, and
\* every request written is eventually followed by the read of its
\* response, so the client never waits forever.
C26_LockStep ==
    /\ [](Len(wire) <= Len(yielded) + 1)
    /\ [](DeliveredWhole =>
            \A k \in 1..Len(yielded) :
              /\ yielded[k].bytes = handled[1][k].bytes
              /\ Tlv_encode(handled[1][k].tlv) = wire[k]
              /\ IsOk(yielded[k].answer)
              /\ yielded[k].answer.val.acc = handled[1][k].after)
    /\ (phase = "read") ~> \/ phase = "start" /\ Len(yielded) = Len(wire)
                           \/ ~DeliveredWhole

\* C26 witness: the client is back at its prompt having written two
\* requests and read two responses whole, the first of them a failure's.
C26_Witness ==
    /\ phase = "start" /\ DeliveredWhole
    /\ Len(wire) = 2 /\ Len(yielded) = 2
    /\ IsSome(yielded[1].answer.val.message)
    /\ yielded[2].answer.val.message = None
    /\ yielded[2].answer.val.acc # I64_ZERO

=============================================================================
